---- MODULE Spec2Model ----
(***************************************************************************)
(* SocialMediaAPI: the multi-platform publish orchestrator                 *)
(* (services/publisher_service.go), the due-post scheduler                 *)
(* (services/scheduler.go), the post table (database/post_repository.go),  *)
(* the CreatePost handler and the platform adapters' pre-network checks.   *)
(* The request sequences inside the YouTube, Facebook, Twitter and         *)
(* Instagram adapters are stepped through one adapter at a time, and so is *)
(* the OAuth state store (services/oauth_state_service.go).                *)
(*                                                                         *)
(* Time is counted in minutes.  One user.                                  *)
(***************************************************************************)
EXTENDS Integers, Sequences, FiniteSets, Bags, TLC

(* ----------------------------- bounds ---------------------------------- *)
MaxTime == 2        \* the clock runs 0..MaxTime
MaxPosts == 1       \* posts created by the API
MaxTicks == 2       \* cron jobs that may be running at the same moment
MaxCalls == 2       \* PublishPost calls in flight at the same moment
MaxDue == 2         \* due scheduled rows when the scheduler runs on its own
MaxFaults == 1      \* database statements that fail in one behaviour (< MaxTime)
MaxAscii == 101     \* one-byte characters at the head of a post's content
MaxWide == 3        \* multi-byte characters after them
MaxAlbum == 5       \* attachments of a Facebook multi-photo post
MaxFileMB == 11     \* size of a video file, in MB
MaxImages == 3      \* images of an Instagram post
MaxCallbacks == 2   \* OAuth callbacks inside ValidateState at the same moment
MaxMinutes == 21    \* the clock of the OAuth state service runs 0..MaxMinutes

(* --------------------------- program constants ------------------------- *)
ExpiryBufferMinutes == 5       \* IsTokenExpired: buffer := 5 * time.Minute
FallbackExtensionMinutes == 1440   \* RefreshFacebookToken: 24 * time.Hour
LongLivedMinutes == 86400      \* expires_in of an exchanged token (60 days)
TickPeriodMinutes == 1         \* cron "@every 1m"
YouTubeTitleLimit == 100       \* uploadVideo: if len(title) > 100 { title = title[:100] }
ShortsSuffixBudget == 92       \* uploadVideo: if len(title) <= 92
PhotoSemCapacity == 4          \* publishMultiplePhotos: sem := make(chan struct{}, 4)
ErrChCapacity == 1             \* publishMultiplePhotos: errCh := make(chan error, 1)
ChunkMB == 5                   \* uploadMediaChunked: const chunkSize = 5 * 1024 * 1024
MaxStatusPolls == 30           \* waitForMediaProcessing: attempt < 30
MaxContainerPolls == 10        \* waitContainerReady: attempt < 10
StateTTLMinutes == 10          \* ValidateState: > 10*time.Minute
CleanupPeriodMinutes == 10     \* cleanupExpired: time.NewTicker(10 * time.Minute)

NoTime == -1                   \* a nil *time.Time

StatusDraft == "draft"
StatusScheduled == "scheduled"
StatusPublishing == "publishing"
StatusPublished == "published"
StatusFailed == "failed"

Twitter == "twitter"
Facebook == "facebook"
LinkedIn == "linkedin"
Instagram == "instagram"
TikTok == "tiktok"
YouTube == "youtube"

\* the name -> adapter map of NewPublisherService
Publishers == {Twitter, Facebook, LinkedIn, Instagram, TikTok, YouTube}

(* ------------------------------ records -------------------------------- *)
\* models.PublishResult
Result(p, ok, msg, id) == [Platform |-> p, Success |-> ok, Message |-> msg, PostID |-> id]

\* the zero value a slot of make([]PublishResult, n) holds
ZeroResult == Result("", FALSE, "", "")

\* models.Media as the adapters see it; nil marks a nil *Media
MediaItem(t, local) == [nil |-> FALSE, Type |-> t, Local |-> local]

NilMedia == [nil |-> TRUE, Type |-> "", Local |-> FALSE]

\* models.PlatformCredentials; present = FALSE is a nil pointer
Cred(tok, exp, uid) == [present |-> TRUE, AccessToken |-> tok, ExpiresAt |-> exp, PlatformUserID |-> uid]

NoCred == [present |-> FALSE, AccessToken |-> "", ExpiresAt |-> NoTime, PlatformUserID |-> ""]

(* ------------------------ utils/token_validator.go --------------------- *)
\* time.Now().Add(buffer).After(*cred.ExpiresAt)
IsTokenExpired(cred, t) ==
    IF cred.ExpiresAt = NoTime THEN FALSE
    ELSE t + ExpiryBufferMinutes > cred.ExpiresAt

\* what the platform answers to the two requests of RefreshFacebookToken
ExchangeAnswers == {"transport_error", "unparsable", "error_body", "token", "token_no_expiry"}

\* RefreshFacebookToken: [err, cred, net] with net the requests issued
RefreshFacebookToken(cred, t, env) ==
    IF ~env.validate
    THEN [err |-> TRUE, cred |-> cred, net |-> 1]
    ELSE CASE env.exchange \in {"transport_error", "unparsable"} ->
                [err |-> FALSE, net |-> 2,
                 cred |-> [cred EXCEPT !.ExpiresAt = t + FallbackExtensionMinutes]]
           [] env.exchange = "error_body" ->
                \* the error envelope is valid JSON: access_token decodes to ""
                [err |-> FALSE, net |-> 2, cred |-> [cred EXCEPT !.AccessToken = ""]]
           [] env.exchange = "token" ->
                [err |-> FALSE, net |-> 2,
                 cred |-> [cred EXCEPT !.AccessToken = "tok2",
                                       !.ExpiresAt = t + LongLivedMinutes]]
           [] OTHER ->
                [err |-> FALSE, net |-> 2, cred |-> [cred EXCEPT !.AccessToken = "tok2"]]

(* ------------------------------ adapters ------------------------------- *)
\* An adapter call yields [result, net, panic, cred]: the PublishResult, the
\* number of network exchanges it issued (each protocol stage counts once),
\* whether it dereferenced a nil *Media, and the credential as it leaves it.
\* env.net says whether the platform's requests succeed.
\* an adapter that clears the expiry of the credential it was given
OutcomeCredentialTouched(r, n, c) ==
    [result |-> r, net |-> n, panic |-> FALSE, cred |-> [c EXCEPT !.ExpiresAt = NoTime]]

Outcome(r, n, c) == [result |-> r, net |-> n, panic |-> FALSE, cred |-> c]

Panic(p, n, c) == [result |-> Result(p, FALSE, "", ""), net |-> n, panic |-> TRUE, cred |-> c]

\* the check without its empty-token half
MissingCredentialsNilOnly(cred) == ~cred.present

\* the check every adapter starts with: cred == nil || cred.AccessToken == ""
MissingCredentials(cred) == ~cred.present \/ cred.AccessToken = ""

\* for _, media := range post.Media { if media.Type == MediaVideo { break } }
RECURSIVE FirstVideoScan(_, _)
FirstVideoScan(media, i) ==
    IF i > Len(media) THEN "none"
    ELSE IF media[i].nil THEN "panic"
    ELSE IF media[i].Type = "video" THEN "found"
    ELSE FirstVideoScan(media, i + 1)

AnyNil(media) == \E i \in 1..Len(media) : media[i].nil

Images(media) == SelectSeq(media, LAMBDA m : m.Type = "image")

NetStage(p, env, n, c, okMsg, failMsg) ==
    IF env.net = "ok"
    THEN Outcome(Result(p, TRUE, okMsg, "ext"), n, c)
    ELSE Outcome(Result(p, FALSE, failMsg, ""), n, c)

TwitterPublish(post, cred, t, env) ==
    IF MissingCredentials(cred)
    THEN Outcome(Result(Twitter, FALSE, "Missing Twitter credentials", ""), 0, cred)
    ELSE IF IsTokenExpired(cred, t)
    THEN Outcome(Result(Twitter, FALSE, "Twitter token has expired. Please reconnect your account via OAuth", ""), 0, cred)
    ELSE IF post.PostType = "short"
    THEN Outcome(Result(Twitter, FALSE, "Twitter does not support short-form video posts. Use post_type 'normal' instead", ""), 0, cred)
    ELSE IF Len(post.Media) > 0 /\ post.Media[1].nil
    THEN Panic(Twitter, 0, cred)
    ELSE IF env.net = "ok" /\ AnyNil(post.Media)
    THEN Panic(Twitter, 1, cred)
    ELSE NetStage(Twitter, env, 1, cred, "Published successfully on Twitter", "Error publishing to Twitter")

\* getPageAccessToken sends "Bearer " + cred.AccessToken: the Graph API answers
\* an empty token with an error, like a failing request
FacebookBody(post, cred, env, n) ==
    IF env.net # "ok" \/ cred.AccessToken = ""
    THEN Outcome(Result(Facebook, FALSE, "Error getting page access token", ""), n + 1, cred)
    ELSE IF post.PostType = "short"
    THEN CASE FirstVideoScan(post.Media, 1) = "panic" -> Panic(Facebook, n + 1, cred)
           [] FirstVideoScan(post.Media, 1) = "none" ->
                Outcome(Result(Facebook, FALSE, "Error publishing Facebook Reel: Facebook Reels require a video attachment", ""), n + 1, cred)
           [] OTHER -> Outcome(Result(Facebook, TRUE, "Published successfully as Facebook Reel", "ext"), n + 2, cred)
    ELSE IF Len(post.Media) = 0
    THEN Outcome(Result(Facebook, TRUE, "Published successfully on Facebook", "ext"), n + 2, cred)
    ELSE IF AnyNil(post.Media)
    THEN Panic(Facebook, n + 1, cred)
    ELSE IF Len(post.Media) = 1 /\ post.Media[1].Type # "image"
    THEN Outcome(Result(Facebook, FALSE, "Error publishing to Facebook: unsupported media configuration", ""), n + 1, cred)
    ELSE Outcome(Result(Facebook, TRUE, "Published successfully on Facebook", "ext"), n + 2, cred)

FacebookPublish(post, cred, t, env) ==
    IF MissingCredentials(cred)
    THEN Outcome(Result(Facebook, FALSE, "Missing Facebook credentials", ""), 0, cred)
    ELSE IF IsTokenExpired(cred, t)
    THEN LET r == RefreshFacebookToken(cred, t, env)
         IN  IF r.err
             THEN Outcome(Result(Facebook, FALSE, "Facebook token has expired and cannot be refreshed", ""), r.net, r.cred)
             ELSE FacebookBody(post, r.cred, env, r.net)
    ELSE FacebookBody(post, cred, env, 0)

LinkedInPublish(post, cred, t, env) ==
    IF MissingCredentials(cred)
    THEN Outcome(Result(LinkedIn, FALSE, "Missing LinkedIn credentials", ""), 0, cred)
    ELSE IF post.PostType = "story"
    THEN Outcome(Result(LinkedIn, FALSE, "LinkedIn does not support stories. Use post_type 'normal' instead", ""), 0, cred)
    ELSE Outcome(Result(LinkedIn, TRUE, "Published successfully on LinkedIn", "ext"), 0, cred)

InstagramPublish(post, cred, t, env) ==
    IF MissingCredentials(cred)
    THEN Outcome(Result(Instagram, FALSE, "Missing Instagram credentials", ""), 0, cred)
    ELSE IF cred.PlatformUserID = ""
    THEN Outcome(Result(Instagram, FALSE, "Instagram account not connected correctly. Reconnect via OAuth to fetch Instagram Business Account ID", ""), 0, cred)
    ELSE IF AnyNil(post.Media)
    THEN Panic(Instagram, 0, cred)
    ELSE IF Len(Images(post.Media)) = 0
    THEN Outcome(Result(Instagram, FALSE, "Instagram requires at least one image", ""), 0, cred)
    ELSE IF Images(post.Media)[1].Local
    THEN Outcome(Result(Instagram, FALSE, "Instagram cannot fetch local media URLs. Use a public BASE_URL (e.g. HTTPS domain or tunnel) so Meta servers can access your files", ""), 0, cred)
    ELSE NetStage(Instagram, env, 1, cred, "Published successfully on Instagram", "Error publishing to Instagram")

TikTokPublish(post, cred, t, env) ==
    IF MissingCredentials(cred)
    THEN Outcome(Result(TikTok, FALSE, "Missing TikTok credentials", ""), 0, cred)
    ELSE CASE FirstVideoScan(post.Media, 1) = "panic" -> Panic(TikTok, 0, cred)
           [] FirstVideoScan(post.Media, 1) = "none" ->
                Outcome(Result(TikTok, FALSE, "TikTok requires a video", ""), 0, cred)
           [] OTHER -> Outcome(Result(TikTok, TRUE, "Published successfully on TikTok", "ext"), 0, cred)

YouTubePublish(post, cred, t, env) ==
    IF MissingCredentials(cred)
    THEN Outcome(Result(YouTube, FALSE, "Missing YouTube credentials", ""), 0, cred)
    ELSE IF IsTokenExpired(cred, t)
    THEN Outcome(Result(YouTube, FALSE, "YouTube token has expired. Please reconnect your account via OAuth", ""), 0, cred)
    ELSE CASE FirstVideoScan(post.Media, 1) = "panic" -> Panic(YouTube, 0, cred)
           [] FirstVideoScan(post.Media, 1) = "none" ->
                Outcome(Result(YouTube, FALSE, "YouTube requires a video attachment", ""), 0, cred)
           [] OTHER -> NetStage(YouTube, env, 1, cred,
                                IF post.PostType = "short" THEN "Published successfully as YouTube Short"
                                                           ELSE "Published successfully on YouTube",
                                "Error publishing to YouTube")

\* publisher.Publish(post, credentials) through the PlatformPublisher interface
Publish(plt, post, cred, t, env) ==
    CASE plt = Twitter -> TwitterPublish(post, cred, t, env)
      [] plt = Facebook -> FacebookPublish(post, cred, t, env)
      [] plt = LinkedIn -> LinkedInPublish(post, cred, t, env)
      [] plt = Instagram -> InstagramPublish(post, cred, t, env)
      [] plt = TikTok -> TikTokPublish(post, cred, t, env)
      [] OTHER -> YouTubePublish(post, cred, t, env)

(* ------------------------------- state --------------------------------- *)
VARIABLES
    now,        \* the wall clock, in minutes
    lastTick,   \* the minute the cron entry last fired
    posts,      \* the posts table: a sequence of rows, row i has id i
    audit,      \* the publish_results table: a bag of [post, result]
    creds,      \* the credentials table: platform -> credential
    ctx,        \* the goroutines: 0 is the HTTP handler, 1..MaxTicks the cron jobs
    handed,     \* post id -> how often the scheduler called PublishPost for it
    failedOnce, \* post id -> a scheduler-driven publish of it has ended in failure
    crashed,    \* an unrecovered panic has ended the process
    faults,     \* how many database statements have returned an error so far
    adapterIn,  \* one adapter call on its own: the arguments
    adapterOut, \* ... and what Publish returned
    yt,         \* YouTubePublisher.uploadVideo: the title, or request by request
    fb,         \* FacebookPublisher.publishMultiplePhotos or publishReel, request by request
    tw,         \* TwitterPublisher.publishWithMedia, request by request
    ig,         \* InstagramPublisher.publishWithMedia, request by request
    oauth       \* OAuthStateService: the states map, its mutex, the callbacks

adapterVars == <<adapterIn, adapterOut, yt, fb, tw, ig, oauth>>

vars == <<now, lastTick, posts, audit, creds, ctx, handed, failedOnce, crashed, faults,
          adapterIn, adapterOut, yt, fb, tw, ig, oauth>>

\* an adapter that is not being stepped through
Off == [pc |-> "off"]

\* a database statement that returns an error counts once
Fails(ok) == IF ok THEN 0 ELSE 1

HttpCtx == 0

TickCtxs == 1..MaxTicks

Contexts == {HttpCtx} \cup TickCtxs

PostIds == 1..(IF MaxPosts > MaxDue THEN MaxPosts ELSE MaxDue)

\* the media table (id order is the table order)
MediaTable ==
    << [ID |-> "m1", m |-> MediaItem("image", FALSE)],
       [ID |-> "m2", m |-> MediaItem("video", FALSE)] >>

\* the zero value of models.Post
NoPost ==
    [ID |-> 0, Platforms |-> <<>>, PostType |-> "", MediaIDs |-> <<>>, Media |-> <<>>,
     Status |-> "", ScheduledFor |-> NoTime, PublishedAt |-> NoTime]

\* a goroutine that runs nothing
IdleCtx ==
    [pc |-> "idle", queue |-> <<>>, post |-> NoPost, results |-> <<>>, done |-> <<>>,
     net |-> <<>>, lookup |-> <<>>, cred |-> <<>>, saved |-> <<>>, updated |-> "none",
     code |-> 0, failed |-> <<>>]

(* --------------------------- database package -------------------------- *)
Range(s) == {s[i] : i \in 1..Len(s)}

\* GetMediaByIDs: SELECT ... FROM media WHERE id = ANY($1)
GetMediaByIDs(ids) ==
    LET hit == SelectSeq(MediaTable, LAMBDA r : r.ID \in Range(ids))
    IN  [i \in 1..Len(hit) |-> hit[i].m]

\* a row of posts as CreatePost inserts it (published_at is not in the INSERT)
RowOf(post) ==
    [Platforms |-> post.Platforms, PostType |-> post.PostType, MediaIDs |-> post.MediaIDs,
     Status |-> post.Status, ScheduledFor |-> post.ScheduledFor, PublishedAt |-> NoTime]

\* rows.Scan into a models.Post, then post.Media from GetMediaByIDs
PostOfRow(id, row) ==
    [ID |-> id, Platforms |-> row.Platforms, PostType |-> row.PostType,
     MediaIDs |-> row.MediaIDs, Media |-> GetMediaByIDs(row.MediaIDs),
     Status |-> row.Status, ScheduledFor |-> row.ScheduledFor, PublishedAt |-> row.PublishedAt]

\* the UPDATE leaves the status column alone
UpdatePostWithoutStatus(table, post) ==
    IF post.ID \in 1..Len(table)
    THEN [table EXCEPT ![post.ID].PublishedAt = post.PublishedAt]
    ELSE table

\* UpdatePost: UPDATE posts SET ..., status, scheduled_for, published_at WHERE id
UpdatePost(table, post) ==
    IF post.ID \in 1..Len(table)
    THEN [table EXCEPT ![post.ID] =
            [Platforms |-> post.Platforms, PostType |-> post.PostType,
             MediaIDs |-> post.MediaIDs, Status |-> post.Status,
             ScheduledFor |-> post.ScheduledFor, PublishedAt |-> post.PublishedAt]]
    ELSE table

\* a WHERE clause without the scheduled_for comparison
IsDueAnyTime(row, t) == row.Status = StatusScheduled

\* the WHERE clause of GetScheduledPosts / ClaimScheduledPosts
IsDue(row, t) == row.Status = StatusScheduled /\ row.ScheduledFor # NoTime /\ row.ScheduledFor <= t

RECURSIVE DueFrom(_, _, _)
DueFrom(table, t, i) ==
    IF i > Len(table) THEN <<>>
    ELSE IF IsDue(table[i], t) THEN <<PostOfRow(i, table[i])>> \o DueFrom(table, t, i + 1)
    ELSE DueFrom(table, t, i + 1)

\* GetScheduledPosts: a plain SELECT, the rows keep status scheduled
GetScheduledPosts(table, t) == [rows |-> DueFrom(table, t, 1), table |-> table]

\* ClaimScheduledPosts: UPDATE ... SET status = publishing ... RETURNING
ClaimScheduledPosts(table, t) ==
    LET claimed == [i \in 1..Len(table) |->
                      IF IsDue(table[i], t) THEN [table[i] EXCEPT !.Status = StatusPublishing]
                      ELSE table[i]]
    IN  [rows |-> [k \in 1..Len(DueFrom(table, t, 1)) |->
                      [DueFrom(table, t, 1)[k] EXCEPT !.Status = StatusPublishing]],
         table |-> claimed]

\* the query the cron job of Scheduler.Start runs
SchedulerFetch(table, t) == GetScheduledPosts(table, t)

\* GetCredentials: nil on no row and on a lookup or decryption error
GetCredentials(store, plt, lookupOk) ==
    IF lookupOk /\ plt \in DOMAIN store THEN store[plt] ELSE NoCred

(* ------------------------- inputs of the model ------------------------- *)
\* request bodies of POST /api/posts (JSON decoded into models.Post)
Body(plts, type, ids, media, pub) ==
    [Platforms |-> plts, PostType |-> type, MediaIDs |-> ids, Media |-> media, PublishedAt |-> pub]

RequestBodies ==
    { Body(<<Facebook, Twitter>>, "normal", <<>>, <<>>, NoTime),
      Body(<<LinkedIn, "mastodon">>, "", <<>>, <<>>, 0),
      Body(<<TikTok, Facebook>>, "short", <<>>, <<NilMedia>>, NoTime),
      Body(<<Instagram, YouTube>>, "normal", <<"m1", "m2">>, <<>>, NoTime),
      Body(<<TikTok>>, "normal", <<>>, <<>>, NoTime),
      Body(<<Facebook>>, "short", <<>>, <<>>, NoTime),
      Body(<<Facebook>>, "short", <<"m1">>, <<>>, NoTime),
      Body(<<Instagram>>, "story", <<>>, <<>>, NoTime),
      Body(<<>>, "normal", <<>>, <<>>, NoTime) }

\* scheduled_for of the request: none, or a minute of the clock
ScheduleInputs == {NoTime} \cup 1..MaxTime

\* what the platforms and the database answer during one platform task
Envs == [net : {"ok", "fail"}, validate : BOOLEAN, exchange : ExchangeAnswers]

\* the answers an adapter call can observe: only Facebook's refresh of an
\* expiring token asks the validate and exchange endpoints
EnvsFor(plt, cred, t) ==
    IF plt = Facebook /\ ~MissingCredentials(cred) /\ IsTokenExpired(cred, t)
    THEN Envs
    ELSE {e \in Envs : e.validate /\ e.exchange = "token"}

\* credential tables the OAuth callbacks can have left behind
StoreAllValid == [p \in Publishers |-> Cred("tok", 100, "uid")]

StoreMixed ==
    [p \in Publishers |->
        CASE p = Facebook -> Cred("tok", 100, "uid")
          [] p = Twitter -> Cred("tok", 2, "uid")
          [] p = Instagram -> Cred("tok", 6, "uid")
          [] p = YouTube -> Cred("tok", 6, "uid")
          [] p = LinkedIn -> Cred("", NoTime, "")
          [] OTHER -> Cred("tok", NoTime, "")]

StoreEmpty == [p \in {} |-> NoCred]

\* only Facebook is connected, and its token is about to expire
StoreFacebookExpiring == [p \in {Facebook} |-> Cred("tok", 6, "uid")]

CredStores == {StoreEmpty, StoreAllValid, StoreMixed, StoreFacebookExpiring}

(* ------------------------- PublishPost: the parts ---------------------- *)
\* results = append(results, result): the first free slot, in completion order
StoreResultAppend(results, idx, r) ==
    LET free == {i \in 1..Len(results) : results[i] = ZeroResult}
    IN  IF free = {} THEN results
        ELSE [results EXCEPT ![CHOOSE i \in free : \A j \in free : i <= j] = r]

\* results[idx] = result
StoreResult(results, idx, r) == [results EXCEPT ![idx] = r]

\* published as soon as one platform succeeded
AnySucceeded(results) == \E i \in 1..Len(results) : results[i].Success

\* allSucceeded := true, whatever the length
AllSucceededVacuously(results) == \A i \in 1..Len(results) : results[i].Success

\* allSucceeded := len(results) > 0; for ... if !result.Success { false }
AllSucceeded(results) ==
    Len(results) > 0 /\ \A i \in 1..Len(results) : results[i].Success

\* every platform name has an adapter
RegisteredAlways(plt) == TRUE

\* publisher, ok := ps.publishers[plt]
Registered(plt) == plt \in Publishers

\* a failed UpdatePost resets the post the caller holds
AfterUpdateRollback(post, updateOk) ==
    IF updateOk THEN post ELSE [post EXCEPT !.Status = StatusDraft, !.PublishedAt = NoTime]

\* if err := ps.db.UpdatePost(post); err != nil { log }: the post in memory stays
AfterUpdate(post, updateOk) == post

\* the cron job gives up its batch when a publish ended in failure
RemainingPostsStopOnFailure(c) ==
    IF c.pc = "returned" /\ c.post.Status = StatusFailed THEN <<>> ELSE c.queue

\* for _, post := range posts: the loop goes on with the posts it has not
\* visited yet, whatever PublishPost did with the previous one
RemainingPosts(c) == c.queue

\* no wg.Wait()
JoinWithoutWait(c) == TRUE

\* wg.Wait(): every goroutine has called wg.Done()
JoinReady(c) == \A i \in 1..Len(c.done) : c.done[i]

\* the post after the status block of PublishPost
Aggregate(post, results, t) ==
    IF AllSucceeded(results)
    THEN [post EXCEPT !.PublishedAt = t, !.Status = StatusPublished]
    ELSE [post EXCEPT !.PublishedAt = NoTime, !.Status = StatusFailed]

\* PublishPost calls that have not returned yet
InFlight == Cardinality({k \in Contexts : ctx[k].pc = "publishing"})

\* a goroutine entering PublishPost(post)
StartCall(c, post) ==
    [c EXCEPT !.pc = "publishing", !.post = post,
              !.results = [i \in 1..Len(post.Platforms) |-> ZeroResult],
              !.done = [i \in 1..Len(post.Platforms) |-> FALSE],
              !.net = [i \in 1..Len(post.Platforms) |-> 0],
              !.lookup = [i \in 1..Len(post.Platforms) |-> "none"],
              !.cred = [i \in 1..Len(post.Platforms) |-> NoCred],
              !.saved = [i \in 1..Len(post.Platforms) |-> "none"],
              !.updated = "none"]

(* ------------------------ handlers.CreatePost -------------------------- *)
ShortPlatforms == {Instagram, Facebook, TikTok}

StoryPlatforms == {Facebook, Instagram}

KnownMedia == {MediaTable[i].ID : i \in 1..Len(MediaTable)}

HasVideo(ids) == \E i \in 1..Len(GetMediaByIDs(ids)) : GetMediaByIDs(ids)[i].Type = "video"

\* the checks before the post gets its id; TRUE when the request is answered 400
Rejected(body) ==
    LET type == IF body.PostType = "" THEN "normal" ELSE body.PostType
    IN  \/ Len(body.Platforms) = 0
        \/ type \notin {"normal", "short", "story"}
        \/ type = "normal" /\ TikTok \in Range(body.Platforms)
        \/ type = "short" /\ \E p \in Range(body.Platforms) : p \notin ShortPlatforms
        \/ type = "short" /\ ~HasVideo(body.MediaIDs) /\ Len(body.MediaIDs) > 0
        \/ type = "story" /\ \E p \in Range(body.Platforms) : p \notin StoryPlatforms
        \/ type = "story" /\ Len(body.MediaIDs) = 0
        \/ \E m \in Range(body.MediaIDs) : m \notin KnownMedia

\* the models.Post the handler holds before it branches on scheduled_for
DecodedPost(body, sched, id) ==
    [ID |-> id, Platforms |-> body.Platforms,
     PostType |-> IF body.PostType = "" THEN "normal" ELSE body.PostType,
     MediaIDs |-> body.MediaIDs,
     Media |-> IF Len(body.MediaIDs) > 0 THEN GetMediaByIDs(body.MediaIDs) ELSE body.Media,
     Status |-> "", ScheduledFor |-> sched, PublishedAt |-> body.PublishedAt]

CreatePost(body, sched, dbOk) ==
    /\ ~crashed
    /\ ctx[HttpCtx].pc = "idle"
    /\ Len(posts) < MaxPosts
    /\ faults + Fails(dbOk) <= MaxFaults
    /\ faults' = IF Rejected(body) THEN faults ELSE faults + Fails(dbOk)
    /\ LET id == Len(posts) + 1
           decoded == DecodedPost(body, sched, id)
           scheduled == sched # NoTime /\ sched > now
           post == [decoded EXCEPT !.Status = IF scheduled THEN StatusScheduled ELSE StatusDraft]
       IN  IF Rejected(body)
           THEN /\ ctx' = [ctx EXCEPT ![HttpCtx] = [IdleCtx EXCEPT !.pc = "responded", !.code = 400]]
                /\ UNCHANGED posts
           ELSE IF ~dbOk
           THEN /\ ctx' = [ctx EXCEPT ![HttpCtx] = [IdleCtx EXCEPT !.pc = "responded", !.code = 500]]
                /\ UNCHANGED posts
           ELSE /\ scheduled \/ InFlight < MaxCalls
                /\ posts' = Append(posts, RowOf(post))
                /\ ctx' = [ctx EXCEPT ![HttpCtx] =
                              IF scheduled
                              THEN [IdleCtx EXCEPT !.pc = "responded", !.code = 201, !.post = post]
                              ELSE StartCall(IdleCtx, post)]
    /\ UNCHANGED <<now, lastTick, audit, creds, handed, failedOnce, crashed>>
    /\ UNCHANGED adapterVars

\* every platform of the call is reported as failed
FailedPlatformsAll(results) == [i \in 1..Len(results) |-> results[i].Platform]

\* for _, result := range results { if !result.Success { append(failedPlatforms, ...) } }
FailedPlatforms(results) ==
    LET bad == SelectSeq(results, LAMBDA r : ~r.Success)
    IN  [i \in 1..Len(bad) |-> bad[i].Platform]

\* the handler after PublishPost returned: the response carries the results,
\* and failed_platforms when it is a 502
Respond ==
    /\ ~crashed
    /\ ctx[HttpCtx].pc = "returned"
    /\ LET failedPlatforms == FailedPlatforms(ctx[HttpCtx].results)
       IN  ctx' = [ctx EXCEPT ![HttpCtx].pc = "responded",
                              ![HttpCtx].failed = failedPlatforms,
                              ![HttpCtx].code = IF Len(failedPlatforms) > 0 THEN 502 ELSE 201]
    /\ UNCHANGED <<now, lastTick, posts, audit, creds, handed, failedOnce, crashed, faults>>
    /\ UNCHANGED adapterVars

\* the handler goroutine ends
HandlerDone ==
    /\ ~crashed
    /\ ctx[HttpCtx].pc = "responded"
    /\ ctx' = [ctx EXCEPT ![HttpCtx] = IdleCtx]
    /\ UNCHANGED <<now, lastTick, posts, audit, creds, handed, failedOnce, crashed, faults>>
    /\ UNCHANGED adapterVars

(* ------------------------- services.PublishPost ------------------------ *)
\* one goroutine of the fan-out, for platform post.Platforms[idx]
RunTask(k, idx, env, lookupOk, saveOk) ==
    /\ ~crashed
    /\ ctx[k].pc = "publishing"
    /\ idx \in 1..Len(ctx[k].done)
    /\ ~ctx[k].done[idx]
    /\ faults + Fails(lookupOk) + Fails(saveOk) <= MaxFaults
    /\ LET c == ctx[k]
           plt == c.post.Platforms[idx]
       IN  IF ~Registered(plt)
           THEN /\ ctx' = [ctx EXCEPT ![k].results =
                                StoreResult(c.results, idx, Result(plt, FALSE, "Platform not supported", "")),
                                      ![k].done[idx] = TRUE]
                /\ UNCHANGED <<audit, crashed, faults>>
           ELSE LET credentials == GetCredentials(creds, plt, lookupOk)
                    out == Publish(plt, c.post, credentials, now, env)
                IN  IF out.panic
                    THEN /\ crashed' = TRUE
                         /\ ctx' = [ctx EXCEPT ![k].net[idx] = out.net]
                         /\ faults' = faults + Fails(lookupOk)
                         /\ UNCHANGED audit
                    ELSE /\ ctx' = [ctx EXCEPT ![k].results = StoreResult(c.results, idx, out.result),
                                               ![k].done[idx] = TRUE,
                                               ![k].net[idx] = out.net,
                                               ![k].cred[idx] = out.cred,
                                               ![k].saved[idx] = IF saveOk THEN "ok" ELSE "failed",
                                               ![k].lookup[idx] =
                                                   IF ~lookupOk THEN "error"
                                                   ELSE IF ~credentials.present THEN "absent"
                                                   ELSE IF credentials.AccessToken = "" THEN "empty"
                                                   ELSE "ok"]
                         /\ audit' = IF saveOk
                                     THEN audit (+) SetToBag({[post |-> c.post.ID, result |-> out.result]})
                                     ELSE audit
                         /\ faults' = faults + Fails(lookupOk) + Fails(saveOk)
                         /\ UNCHANGED crashed
    /\ UNCHANGED <<now, lastTick, posts, creds, handed, failedOnce>>
    /\ UNCHANGED adapterVars

\* wg.Wait() returned: aggregate, UpdatePost, return results
Join(k, updateOk) ==
    /\ ~crashed
    /\ ctx[k].pc = "publishing"
    /\ JoinReady(ctx[k])
    /\ faults + Fails(updateOk) <= MaxFaults
    /\ faults' = faults + Fails(updateOk)
    /\ LET post == Aggregate(ctx[k].post, ctx[k].results, now)
       IN  /\ ctx' = [ctx EXCEPT ![k].pc = "returned", ![k].post = AfterUpdate(post, updateOk),
                                 ![k].updated = IF updateOk THEN "ok" ELSE "failed"]
           /\ posts' = IF updateOk THEN UpdatePost(posts, post) ELSE posts
           /\ failedOnce' = IF k \in TickCtxs /\ post.Status = StatusFailed
                            THEN [failedOnce EXCEPT ![post.ID] = TRUE]
                            ELSE failedOnce
    /\ UNCHANGED <<now, lastTick, audit, creds, handed, crashed>>
    /\ UNCHANGED adapterVars

(* --------------------------- services.Scheduler ------------------------ *)
\* "@every 1m": a minute has passed since the entry last fired
TickIsDue == lastTick + TickPeriodMinutes <= now

\* the cron entry fires: a new goroutine runs the job and fetches the due posts
TickFire(k, dbOk) ==
    /\ ~crashed
    /\ k \in TickCtxs
    /\ ctx[k].pc = "idle"
    /\ \A j \in TickCtxs : j < k => ctx[j].pc # "idle"
    /\ TickIsDue
    /\ faults + Fails(dbOk) <= MaxFaults
    /\ faults' = faults + Fails(dbOk)
    /\ lastTick' = now
    /\ LET got == SchedulerFetch(posts, now)
       IN  IF dbOk
           THEN /\ ctx' = [ctx EXCEPT ![k] = [IdleCtx EXCEPT !.pc = "loop", !.queue = got.rows]]
                /\ posts' = got.table
           ELSE UNCHANGED <<ctx, posts>>
    /\ UNCHANGED <<now, audit, creds, handed, failedOnce, crashed>>
    /\ UNCHANGED adapterVars

\* for _, post := range posts { s.publisher.PublishPost(post) }
TickLoop(k) ==
    /\ ~crashed
    /\ k \in TickCtxs
    /\ ctx[k].pc \in {"loop", "returned"}
    /\ LET rest == RemainingPosts(ctx[k])
       IN  IF rest = <<>>
           THEN /\ ctx' = [ctx EXCEPT ![k] = IdleCtx]
                /\ UNCHANGED handed
           ELSE /\ InFlight < MaxCalls
                /\ ctx' = [ctx EXCEPT ![k] =
                              StartCall([IdleCtx EXCEPT !.queue = Tail(rest)], Head(rest))]
                /\ handed' = [handed EXCEPT ![Head(rest).ID] = @ + 1]
    /\ UNCHANGED <<now, lastTick, posts, audit, creds, failedOnce, crashed, faults>>
    /\ UNCHANGED adapterVars

\* a minute passes; cron fires the entry in every minute, none is skipped
AdvanceTime ==
    /\ ~crashed
    /\ now < MaxTime
    /\ ~TickIsDue
    /\ now' = now + 1
    /\ UNCHANGED <<lastTick, posts, audit, creds, ctx, handed, failedOnce, crashed, faults>>
    /\ UNCHANGED adapterVars

(* ------------------------ one adapter call alone ----------------------- *)
MediaLists ==
    { <<>>, <<MediaItem("image", FALSE)>>, <<MediaItem("image", TRUE)>>,
      <<MediaItem("video", FALSE)>>, <<NilMedia>>,
      <<MediaItem("image", FALSE), MediaItem("video", FALSE)>> }

CredInputs ==
    { NoCred, Cred("", NoTime, ""), Cred("tok", NoTime, "uid"), Cred("tok", 100, ""),
      Cred("tok", 100, "uid"), Cred("tok", 4, "uid"), Cred("tok", 6, "uid") }

NoCall ==
    [plt |-> "", post |-> NoPost, cred |-> NoCred, t |-> 0,
     env |-> [net |-> "ok", validate |-> TRUE, exchange |-> "token"]]

NoReturn == [called |-> FALSE, result |-> ZeroResult, net |-> 0, panic |-> FALSE, cred |-> NoCred]

AdapterInputs ==
    { [plt |-> p, post |-> [NoPost EXCEPT !.ID = 1, !.Platforms = <<p>>, !.PostType = ty, !.Media = m],
       cred |-> c, t |-> t, env |-> e] :
        p \in Publishers, ty \in {"normal", "short", "story"}, m \in MediaLists,
        c \in CredInputs, t \in 0..MaxTime, e \in {x \in Envs : x.validate /\ x.exchange = "token"} }
    \cup
    { [plt |-> Facebook, post |-> [NoPost EXCEPT !.ID = 1, !.Platforms = <<Facebook>>, !.PostType = "normal"],
       cred |-> c, t |-> MaxTime, env |-> e] : c \in CredInputs, e \in Envs }

\* publisher.Publish(post, credentials) called once
AdapterCall ==
    /\ ~adapterOut.called
    /\ LET out == Publish(adapterIn.plt, adapterIn.post, adapterIn.cred, adapterIn.t, adapterIn.env)
       IN  adapterOut' = [called |-> TRUE, result |-> out.result, net |-> out.net,
                          panic |-> out.panic, cred |-> out.cred]
    /\ UNCHANGED <<now, lastTick, posts, audit, creds, ctx, handed, failedOnce, crashed, faults, adapterIn>>
    /\ UNCHANGED <<yt, fb, tw, ig, oauth>>

(* ---------------------------- specification ---------------------------- *)
Init ==
    /\ now = 0
    /\ lastTick = 0
    /\ posts = <<>>
    /\ audit = EmptyBag
    /\ creds \in CredStores
    /\ ctx = [k \in Contexts |-> IdleCtx]
    /\ handed = [p \in PostIds |-> 0]
    /\ failedOnce = [p \in PostIds |-> FALSE]
    /\ crashed = FALSE
    /\ faults = 0
    /\ adapterIn = NoCall
    /\ adapterOut = NoReturn
    /\ yt = Off /\ fb = Off /\ tw = Off /\ ig = Off /\ oauth = Off

Next ==
    \/ \E body \in RequestBodies, sched \in ScheduleInputs, dbOk \in BOOLEAN : CreatePost(body, sched, dbOk)
    \/ Respond
    \/ HandlerDone
    \/ \E k \in Contexts, lookupOk \in BOOLEAN, saveOk \in BOOLEAN :
          \E idx \in 1..Len(ctx[k].done) :
              \E env \in EnvsFor(ctx[k].post.Platforms[idx],
                                 GetCredentials(creds, ctx[k].post.Platforms[idx], lookupOk), now) :
                  RunTask(k, idx, env, lookupOk, saveOk)
    \/ \E k \in Contexts, updateOk \in BOOLEAN : Join(k, updateOk)
    \/ \E k \in TickCtxs, dbOk \in BOOLEAN : TickFire(k, dbOk)
    \/ \E k \in TickCtxs : TickLoop(k)
    \/ AdvanceTime

Spec == Init /\ [][Next]_vars

\* the scheduler on its own: rows that CreatePost stored as scheduled for
\* minute 1, and the clock has reached minute 1
DueBodies ==
    { Body(<<Twitter>>, "normal", <<>>, <<>>, NoTime),
      Body(<<LinkedIn, "mastodon">>, "", <<>>, <<>>, NoTime) }

DueRow(body) == RowOf([DecodedPost(body, 1, 0) EXCEPT !.Status = StatusScheduled])

DueTables == [1..MaxDue -> {DueRow(b) : b \in DueBodies}]

InitTick ==
    /\ now = 1
    /\ lastTick = 0
    /\ posts \in DueTables
    /\ audit = EmptyBag
    /\ creds \in {StoreAllValid, StoreMixed}
    /\ ctx = [k \in Contexts |-> IdleCtx]
    /\ handed = [p \in PostIds |-> 0]
    /\ failedOnce = [p \in PostIds |-> FALSE]
    /\ crashed = FALSE
    /\ faults = 0
    /\ adapterIn = NoCall
    /\ adapterOut = NoReturn
    /\ yt = Off /\ fb = Off /\ tw = Off /\ ig = Off /\ oauth = Off

TaskStep(k) ==
    \E lookupOk \in BOOLEAN, saveOk \in BOOLEAN :
        \E idx \in 1..Len(ctx[k].done) :
            \E env \in EnvsFor(ctx[k].post.Platforms[idx],
                               GetCredentials(creds, ctx[k].post.Platforms[idx], lookupOk), now) :
                RunTask(k, idx, env, lookupOk, saveOk)

NextTick ==
    \/ \E k \in TickCtxs : TaskStep(k)
    \/ \E k \in TickCtxs, updateOk \in BOOLEAN : Join(k, updateOk)
    \/ \E k \in TickCtxs, dbOk \in BOOLEAN : TickFire(k, dbOk)
    \/ \E k \in TickCtxs : TickLoop(k)
    \/ AdvanceTime

SpecTick == InitTick /\ [][NextTick]_vars

\* the cron entry keeps firing, goroutines keep running, adapters return
TickFairness ==
    /\ WF_vars(AdvanceTime)
    /\ WF_vars(\E k \in TickCtxs, dbOk \in BOOLEAN : TickFire(k, dbOk))
    /\ \A k \in TickCtxs :
           /\ WF_vars(TickLoop(k))
           /\ WF_vars(TaskStep(k))
           /\ WF_vars(\E updateOk \in BOOLEAN : Join(k, updateOk))

SpecTickFair == SpecTick /\ TickFairness

\* PublishPost on its own, called with a post read from the posts table.  The
\* platforms column is TEXT[] NOT NULL: a row can hold the empty list.
InitPublish ==
    /\ now = 1
    /\ lastTick = 1
    /\ \E plts \in {<<>>, <<Twitter>>, <<LinkedIn, Facebook>>} :
           LET row == DueRow(Body(plts, "normal", <<>>, <<>>, NoTime))
           IN  /\ posts = <<row>>
               /\ ctx = [k \in Contexts |->
                            IF k = HttpCtx THEN StartCall(IdleCtx, PostOfRow(1, row)) ELSE IdleCtx]
    /\ audit = EmptyBag
    /\ creds \in CredStores
    /\ handed = [p \in PostIds |-> 0]
    /\ failedOnce = [p \in PostIds |-> FALSE]
    /\ crashed = FALSE
    /\ faults = 0
    /\ adapterIn = NoCall
    /\ adapterOut = NoReturn
    /\ yt = Off /\ fb = Off /\ tw = Off /\ ig = Off /\ oauth = Off

NextPublish ==
    \/ TaskStep(HttpCtx)
    \/ \E updateOk \in BOOLEAN : Join(HttpCtx, updateOk)

SpecPublish == InitPublish /\ [][NextPublish]_vars

\* the adapters as functions: every argument drawn from the input sets
InitAdapter ==
    /\ now = 0
    /\ lastTick = 0
    /\ posts = <<>>
    /\ audit = EmptyBag
    /\ creds = StoreEmpty
    /\ ctx = [k \in Contexts |-> IdleCtx]
    /\ handed = [p \in PostIds |-> 0]
    /\ failedOnce = [p \in PostIds |-> FALSE]
    /\ crashed = FALSE
    /\ faults = 0
    /\ adapterIn \in AdapterInputs
    /\ adapterOut = NoReturn
    /\ yt = Off /\ fb = Off /\ tw = Off /\ ig = Off /\ oauth = Off

NextAdapter == AdapterCall

SpecAdapter == InitAdapter /\ [][NextAdapter]_vars

(* ------------------- the adapters' request sequences ------------------- *)
serverVars == <<now, lastTick, posts, audit, creds, ctx, handed, failedOnce, crashed, faults,
                adapterIn, adapterOut>>

\* no request, no cron job: only one adapter is stepped through
InitQuiet ==
    /\ now = 0
    /\ lastTick = 0
    /\ posts = <<>>
    /\ audit = EmptyBag
    /\ creds = StoreEmpty
    /\ ctx = [k \in Contexts |-> IdleCtx]
    /\ handed = [p \in PostIds |-> 0]
    /\ failedOnce = [p \in PostIds |-> FALSE]
    /\ crashed = FALSE
    /\ faults = 0
    /\ adapterIn = NoCall
    /\ adapterOut = NoReturn

\* return "", err: the adapter gives up, Publish answers success = false
Abort(t, msg) == [t EXCEPT !.pc = "done", !.result = "failed", !.err = msg]

\* the file is never closed
DeferredNever(t) == t

\* defer file.Close(): runs when the function that opened the file returns
Deferred(t) == [t EXCEPT !.file = IF @ = "open" THEN "closed" ELSE @]

(* ----------------------- YouTube: uploadVideo title -------------------- *)
\* A Go string is a sequence of bytes.  A byte is written 1 for a one-byte
\* character, w in 2..4 for the first byte of a w-byte character and 0 for a
\* continuation byte.
Ascii(n) == [i \in 1..n |-> 1]

Wide(n, w) == [i \in 1..(n * w) |-> IF (i - 1) % w = 0 THEN w ELSE 0]

\* the characters a reader of the string counts: a first byte followed by its
\* continuation bytes is one character, any other byte is one (replacement)
\* character.  Byte i is left out when it is a continuation byte of a
\* complete multi-byte character.
RuneCount(str) ==
    LET Continues(i) ==
            /\ str[i] = 0
            /\ \E l \in 1..(i - 1) :
                   /\ str[l] >= 2
                   /\ l + str[l] - 1 >= i
                   /\ l + str[l] - 1 <= Len(str)
                   /\ \A j \in (l + 1)..(l + str[l] - 1) : str[j] = 0
    IN  Cardinality({i \in 1..Len(str) : ~Continues(i)})

\* the suffix is appended whatever the length
SuffixAlways(title) == TRUE

\* if len(title) <= 92
SuffixFits(title) == Len(title) <= ShortsSuffixBudget

\* the snippet title uploadVideo sends: title[:100] when len(title) > 100,
\* "Untitled" (8 bytes) when empty, then " #Shorts" (8 bytes) for a short
YouTubeTitle(content, isShort) ==
    LET cut == IF Len(content) > YouTubeTitleLimit
               THEN SubSeq(content, 1, YouTubeTitleLimit) ELSE content
        title == IF cut = <<>> THEN Ascii(8) ELSE cut
    IN  IF isShort /\ SuffixFits(title) THEN title \o Ascii(8) ELSE title

InitTitle ==
    /\ InitQuiet
    /\ yt \in { [pc |-> "start", content |-> Ascii(a) \o Wide(n, w), isShort |-> b, title |-> <<>>] :
                  a \in 0..MaxAscii, n \in 0..MaxWide, w \in 2..4, b \in BOOLEAN }
    /\ fb = Off /\ tw = Off /\ ig = Off /\ oauth = Off

\* uploadVideo up to the videoResource literal
BuildTitle ==
    /\ yt.pc = "start"
    /\ yt' = [yt EXCEPT !.pc = "built", !.title = YouTubeTitle(yt.content, yt.isShort)]
    /\ UNCHANGED <<fb, tw, ig>>
    /\ UNCHANGED <<serverVars, oauth>>

SpecTitle == InitTitle /\ [][BuildTitle]_vars

(* --------------- YouTube: the resumable upload of uploadVideo ----------- *)
\* A request is answered by a transport error or by a response with a status,
\* a Location header (POST) or a body that parses or not and holds an id or
\* not (PUT).  net lists the requests sent, each with its answer.
InitUpload ==
    /\ InitQuiet
    /\ yt \in { [pc |-> "initiate", MimeType |-> m, net |-> <<>>, uploadURI |-> "", file |-> "none",
                  result |-> "none", PostID |-> "", err |-> ""] : m \in {"", "video/webm"} }
    /\ fb = Off /\ tw = Off /\ ig = Off /\ oauth = Off

\* any 200 answer is taken for an opened session
HasSessionURIUnchecked(location) == TRUE

\* if uploadURI == "" { return "", error }
HasSessionURI(location) == location # ""

\* initiateResumableUpload: POST the metadata, read the Location header
YtInitiate(e, s, l) ==
    /\ yt.pc = "initiate"
    /\ LET answer == [err |-> e, status |-> s, location |-> l]
           t == [yt EXCEPT !.net = Append(@, [method |-> "POST", url |-> "videos?uploadType=resumable",
                                               answer |-> answer])]
       IN  yt' = CASE answer.err -> Abort(t, "youtube initiate upload request failed")
                   [] answer.status # 200 -> Abort(t, "YouTube API error")
                   [] ~HasSessionURI(answer.location) ->
                        Abort(t, "youtube did not return a resumable upload URI")
                   [] OTHER -> [t EXCEPT !.pc = "open", !.uploadURI = answer.location]
    /\ UNCHANGED <<fb, tw, ig>>
    /\ UNCHANGED <<serverVars, oauth>>

\* uploadVideoFile: os.Open(media.Path), defer file.Close(), file.Stat()
YtOpen(answer) ==
    /\ yt.pc = "open"
    /\ yt' = CASE answer = "noopen" -> Abort(yt, "failed to open video file")
               [] answer = "nostat" ->
                    Abort(Deferred([yt EXCEPT !.file = "open"]), "failed to stat video file")
               [] OTHER -> [yt EXCEPT !.pc = "put", !.file = "open"]
    /\ UNCHANGED <<fb, tw, ig>>
    /\ UNCHANGED <<serverVars, oauth>>

\* uploadVideoFile: PUT the file to uploadURI and decode the insert response;
\* the deferred file.Close() runs on every return.  Publish puts the video id
\* into PostID.
YtPut(e, s, j, v) ==
    /\ yt.pc = "put"
    /\ LET answer == [err |-> e, status |-> s, json |-> j, id |-> v]
           t == Deferred([yt EXCEPT !.net = Append(@, [method |-> "PUT", url |-> yt.uploadURI,
                                                       contentType |-> IF yt.MimeType = "" THEN "video/mp4"
                                                                       ELSE yt.MimeType,
                                                       answer |-> answer])])
       IN  yt' = CASE answer.err -> Abort(t, "youtube video upload request failed")
                   [] answer.status \notin {200, 201} -> Abort(t, "YouTube upload failed")
                   [] ~answer.json -> Abort(t, "failed to parse YouTube upload response")
                   [] answer.id = "" -> Abort(t, "youtube returned empty video ID")
                   [] OTHER -> [t EXCEPT !.pc = "done", !.result = "ok", !.PostID = answer.id]
    /\ UNCHANGED <<fb, tw, ig>>
    /\ UNCHANGED <<serverVars, oauth>>

NextUpload ==
    \/ \E e \in BOOLEAN, s \in {200, 201, 500}, l \in {"", "session1", "session2"} :
          YtInitiate(e, s, l)
    \/ \E answer \in {"ok", "noopen", "nostat"} : YtOpen(answer)
    \/ \E e \in BOOLEAN, s \in {200, 201, 500}, j \in BOOLEAN, v \in {"", "video1", "video2"} :
          YtPut(e, s, j, v)

SpecUpload == InitUpload /\ [][NextUpload]_vars

(* ------------------ Facebook: publishMultiplePhotos -------------------- *)
\* the goroutines that hold a slot of sem: inside uploadPhoto, or offering its
\* error to errCh (the slot is freed by a deferred call)
Uploading == {i \in 1..Len(fb.task) : fb.task[i] \in {"uploading", "sending"}}

\* post.Media of a call that reaches publishMultiplePhotos, as types: 2 to
\* MaxAlbum images, or a list with videos in it
InitAlbum ==
    /\ InitQuiet
    /\ fb \in { [pc |-> "uploading", media |-> m, next |-> 1,
                  task |-> [i \in 1..Len(m) |-> "none"],
                  published |-> [i \in 1..Len(m) |-> "none"],
                  handle |-> [i \in 1..Len(m) |-> [file |-> "none"]],
                  photoIDs |-> <<>>, errCh |-> <<>>,
                  feed |-> "none", attached |-> <<>>, result |-> "none", PostID |-> ""] :
                m \in {[i \in 1..n |-> "image"] : n \in 2..MaxAlbum}
                         \cup {<<"image", "video", "image">>, <<"video", "video">>} }
    /\ yt = Off /\ tw = Off /\ ig = Off /\ oauth = Off

\* one turn of "for _, media := range post.Media": skip what is not an image,
\* else wg.Add(1) and go func()
AlbumSpawn ==
    /\ fb.pc = "uploading"
    /\ fb.next <= Len(fb.media)
    /\ fb' = [fb EXCEPT !.next = @ + 1,
                        !.task[fb.next] = IF fb.media[fb.next] = "image" THEN "waiting" ELSE "skipped"]
    /\ UNCHANGED <<yt, tw, ig>>
    /\ UNCHANGED <<serverVars, oauth>>

\* every send on sem succeeds at once
SemAlwaysFree(held) == TRUE

\* sem <- struct{}{} goes through while fewer than cap(sem) slots are held
SemFree(held) == held < PhotoSemCapacity

\* goroutine i passes sem and calls uploadPhoto(m, token, pageID, false, "")
AlbumAcquire(i) ==
    /\ fb.pc = "uploading"
    /\ i \in 1..Len(fb.task)
    /\ fb.task[i] = "waiting"
    /\ SemFree(Cardinality(Uploading))
    /\ fb' = [fb EXCEPT !.task[i] = "uploading", !.published[i] = "false",
                        !.handle[i] = [file |-> "open"]]
    /\ UNCHANGED <<yt, tw, ig>>
    /\ UNCHANGED <<serverVars, oauth>>

\* uploadPhoto returned in goroutine i, its file closed: the id is appended
\* under mu and the deferred calls free the slot and wg.Done(), or the
\* goroutine goes on to offer the error to errCh
AlbumUploaded(i, ok) ==
    /\ fb.pc = "uploading"
    /\ i \in 1..Len(fb.task)
    /\ fb.task[i] = "uploading"
    /\ fb' = IF ok
             THEN [fb EXCEPT !.task[i] = "ok", !.handle[i] = Deferred(@), !.photoIDs = Append(@, i)]
             ELSE [fb EXCEPT !.task[i] = "sending", !.handle[i] = Deferred(@)]
    /\ UNCHANGED <<yt, tw, ig>>
    /\ UNCHANGED <<serverVars, oauth>>

\* case errCh <- err with no default: ready only while errCh has room
OfferReadyNoDefault(errCh) == Len(errCh) < ErrChCapacity

\* select { case errCh <- err: default: } is ready whatever errCh holds
OfferReady(errCh) == TRUE

\* goroutine i offers its error: sent when errCh has room, dropped when it is
\* full; then return, and the deferred calls free the slot and wg.Done()
AlbumOffer(i) ==
    /\ fb.pc = "uploading"
    /\ i \in 1..Len(fb.task)
    /\ fb.task[i] = "sending"
    /\ OfferReady(fb.errCh)
    /\ fb' = [fb EXCEPT !.task[i] = "failed",
                        !.errCh = IF Len(@) < ErrChCapacity THEN Append(@, i) ELSE @]
    /\ UNCHANGED <<yt, tw, ig>>
    /\ UNCHANGED <<serverVars, oauth>>

\* wg.Wait() returns at once
UploadsDoneNoWait(task) == TRUE

\* wg.Wait(): every goroutine that was started has returned
UploadsDone(task) == \A i \in 1..Len(task) : task[i] \in {"skipped", "ok", "failed"}

\* the loop is over and wg.Wait() returned: give up when errCh holds an error
\* (select { case e := <-errCh: return "", e; default: }), else POST /feed
\* with attached_media
AlbumFeed ==
    /\ fb.pc = "uploading"
    /\ fb.next > Len(fb.media)
    /\ UploadsDone(fb.task)
    /\ fb' = IF Len(fb.errCh) > 0
             THEN [fb EXCEPT !.pc = "done", !.errCh = Tail(@), !.result = "failed"]
             ELSE [fb EXCEPT !.pc = "feed", !.feed = "sent", !.attached = fb.photoIDs]
    /\ UNCHANGED <<yt, tw, ig>>
    /\ UNCHANGED <<serverVars, oauth>>

\* the Graph API answers the feed request: an error, or a 200 body whose id,
\* "" when it has none, is returned as it is
AlbumFeedAnswer(answer) ==
    /\ fb.pc = "feed"
    /\ fb' = IF answer = "fail"
             THEN [fb EXCEPT !.pc = "done", !.feed = "failed", !.result = "failed"]
             ELSE [fb EXCEPT !.pc = "done", !.feed = "ok", !.result = "ok", !.PostID = answer]
    /\ UNCHANGED <<yt, tw, ig>>
    /\ UNCHANGED <<serverVars, oauth>>

NextAlbum ==
    \/ AlbumSpawn
    \/ \E i \in 1..MaxAlbum : AlbumAcquire(i)
    \/ \E i \in 1..MaxAlbum, ok \in BOOLEAN : AlbumUploaded(i, ok)
    \/ \E i \in 1..MaxAlbum : AlbumOffer(i)
    \/ AlbumFeed
    \/ \E answer \in {"fail", "", "post1"} : AlbumFeedAnswer(answer)

\* every goroutine is scheduled, and every request returns (http.Client with
\* Timeout: 30 * time.Second)
SpecAlbum == InitAlbum /\ [][NextAlbum]_vars /\ WF_vars(NextAlbum)

(* ----------------------- Facebook: publishReel ------------------------- *)
\* post.Media of a short post, as types, after getPageAccessToken
InitReel ==
    /\ InitQuiet
    /\ fb \in { [pc |-> "start", media |-> m, net |-> <<>>, VideoID |-> "", UploadURL |-> "",
                  file |-> "none", result |-> "none", PostID |-> "", err |-> ""] :
                m \in {<<>>, <<"image">>, <<"video">>, <<"image", "video">>, <<"video", "video">>} }
    /\ yt = Off /\ tw = Off /\ ig = Off /\ oauth = Off

\* the first video of post.Media is looked for, then Step 1: POST video_reels
\* with upload_phase=start; video_id and upload_url are taken from the body
\* as they come
ReelStart(e, s, j, v, u) ==
    /\ fb.pc = "start"
    /\ LET answer == [err |-> e, status |-> s, json |-> j, video_id |-> v, upload_url |-> u]
           t == [fb EXCEPT !.net = Append(@, [phase |-> "start", url |-> "video_reels", answer |-> answer])]
       IN  fb' = CASE \A i \in 1..Len(fb.media) : fb.media[i] # "video" ->
                        Abort(fb, "Facebook Reels require a video attachment")
                   [] answer.err -> Abort(t, "request failed")
                   [] answer.status # 200 -> Abort(t, "Facebook Reel init error")
                   [] ~answer.json -> Abort(t, "failed to parse reel init response")
                   [] OTHER -> [t EXCEPT !.pc = "open", !.VideoID = answer.video_id,
                                         !.UploadURL = answer.upload_url]
    /\ UNCHANGED <<yt, tw, ig>>
    /\ UNCHANGED <<serverVars, oauth>>

\* Step 2: os.Open(videoMedia.Path), defer videoFile.Close(), videoFile.Stat()
ReelOpen(answer) ==
    /\ fb.pc = "open"
    /\ fb' = CASE answer = "noopen" -> Abort(fb, "failed to open video file")
               [] answer = "nostat" ->
                    Abort(Deferred([fb EXCEPT !.file = "open"]), "failed to stat video file")
               [] OTHER -> [fb EXCEPT !.pc = "upload", !.file = "open"]
    /\ UNCHANGED <<yt, tw, ig>>
    /\ UNCHANGED <<serverVars, oauth>>

\* Step 2: POST the file to initResp.UploadURL; the client refuses an empty
\* URL before anything is sent
ReelUpload(e, s) ==
    /\ fb.pc = "upload"
    /\ LET answer == [err |-> e, status |-> s]
           t == [fb EXCEPT !.net = Append(@, [phase |-> "upload", url |-> fb.UploadURL, answer |-> answer])]
       IN  fb' = CASE fb.UploadURL = "" -> Abort(Deferred(fb), "video upload request failed")
                   [] answer.err -> Abort(Deferred(t), "video upload request failed")
                   [] answer.status # 200 -> Abort(Deferred(t), "Facebook Reel upload error")
                   [] OTHER -> [t EXCEPT !.pc = "finish"]
    /\ UNCHANGED <<yt, tw, ig>>
    /\ UNCHANGED <<serverVars, oauth>>

\* Step 3: POST video_reels with upload_phase=finish and video_id; the body of
\* a 200 answer is decoded into finishResult and not read again.  Publish puts
\* initResp.VideoID into PostID.
ReelFinish(e, s, ok) ==
    /\ fb.pc = "finish"
    /\ LET answer == [err |-> e, status |-> s, success |-> ok]
           t == Deferred([fb EXCEPT !.net = Append(@, [phase |-> "finish", url |-> "video_reels",
                                                        answer |-> answer])])
       IN  fb' = CASE answer.err -> Abort(t, "reel finish request failed")
                   [] answer.status # 200 -> Abort(t, "Facebook Reel publish error")
                   [] OTHER -> [t EXCEPT !.pc = "done", !.result = "ok", !.PostID = fb.VideoID]
    /\ UNCHANGED <<yt, tw, ig>>
    /\ UNCHANGED <<serverVars, oauth>>

NextReel ==
    \/ \E e \in BOOLEAN, s \in {200, 400}, j \in BOOLEAN, v \in {"", "video1"}, u \in {"", "upload1"} :
          ReelStart(e, s, j, v, u)
    \/ \E answer \in {"ok", "noopen", "nostat"} : ReelOpen(answer)
    \/ \E e \in BOOLEAN, s \in {200, 400} : ReelUpload(e, s)
    \/ \E e \in BOOLEAN, s \in {200, 400}, ok \in BOOLEAN :
          ReelFinish(e, s, ok)

SpecReel == InitReel /\ [][NextReel]_vars

(* -------------------- Twitter: publishWithMedia ------------------------ *)
\* post.Media of a call that reaches publishWithMedia: type and file size (MB)
InitTwitter ==
    /\ InitQuiet
    /\ LET Img == [Type |-> "image", Size |-> 1]
           Vid(mb) == [Type |-> "video", Size |-> mb]
           inputs == {<<Img>>, <<Img, Img>>, <<Vid(ChunkMB + 1), Img>>, <<Vid(ChunkMB + 1), Vid(1)>>}
                         \cup {<<Vid(mb)>> : mb \in 1..MaxFileMB}
                         \cup {<<Img, Vid(mb)>> : mb \in {1, MaxFileMB}}
       IN  tw \in { [pc |-> "next", media |-> m, cur |-> 1,
                  inited |-> [i \in 1..Len(m) |-> FALSE],
                  segs |-> [i \in 1..Len(m) |-> <<>>],
                  offset |-> 0,
                  finalized |-> [i \in 1..Len(m) |-> FALSE],
                  state |-> [i \in 1..Len(m) |-> "none"],
                  polls |-> 0, pollEnd |-> "none",
                  file |-> "none",
                  mediaIDs |-> <<>>, tweet |-> "none", result |-> "none", PostID |-> "", err |-> ""] :
                m \in inputs }
    /\ yt = Off /\ fb = Off /\ ig = Off /\ oauth = Off

\* uploadMedia returned the id: mediaIDs = append(mediaIDs, mediaID), next item
Uploaded(t, how) ==
    Deferred([t EXCEPT !.pc = "next", !.state[t.cur] = how, !.mediaIDs = Append(@, t.cur),
                       !.cur = @ + 1, !.offset = 0, !.polls = 0])

\* uploadMediaSimple: the file is opened and copied into one multipart
\* request for an image
TwSimpleUpload(ok) ==
    /\ tw.pc = "next"
    /\ tw.cur <= Len(tw.media)
    /\ tw.media[tw.cur].Type # "video"
    /\ LET t == [tw EXCEPT !.file = "open"]
       IN  tw' = IF ok THEN Uploaded(t, "ready") ELSE Abort(Deferred(t), "failed to upload media")
    /\ UNCHANGED <<yt, fb, ig>>
    /\ UNCHANGED <<serverVars, oauth>>

\* uploadMediaChunked: command=INIT, then os.Open(media.Path) and
\* defer file.Close()
TwInit(answer) ==
    /\ tw.pc = "next"
    /\ tw.cur <= Len(tw.media)
    /\ tw.media[tw.cur].Type = "video"
    /\ tw' = CASE answer = "fail" -> Abort(tw, "failed to upload media")
               [] answer = "noopen" ->
                    Abort([tw EXCEPT !.inited[tw.cur] = TRUE], "failed to upload media")
               [] OTHER -> [tw EXCEPT !.pc = "append", !.inited[tw.cur] = TRUE, !.offset = 0,
                                      !.file = "open"]
    /\ UNCHANGED <<yt, fb, ig>>
    /\ UNCHANGED <<serverVars, oauth>>

\* n of file.Read(chunkBuf): what is left of the file, at most one chunk
ReadLen(size, offset) == IF size - offset > ChunkMB THEN ChunkMB ELSE size - offset

\* one turn of the APPEND loop: read a chunk, send it with segment_index
TwAppend(ok) ==
    /\ tw.pc = "append"
    /\ ReadLen(tw.media[tw.cur].Size, tw.offset) > 0
    /\ LET n == ReadLen(tw.media[tw.cur].Size, tw.offset)
           segmentIndex == Len(tw.segs[tw.cur])
       IN  tw' = IF ok
                 THEN [tw EXCEPT !.segs[tw.cur] = Append(@, [index |-> segmentIndex, bytes |-> n]),
                                 !.offset = @ + n]
                 ELSE Abort(Deferred(tw), "failed to upload media")
    /\ UNCHANGED <<yt, fb, ig>>
    /\ UNCHANGED <<serverVars, oauth>>

\* Read returned 0, io.EOF: the loop ends and command=FINALIZE is sent; the
\* answer carries processing_info or not
TwFinalize(answer) ==
    /\ tw.pc = "append"
    /\ ReadLen(tw.media[tw.cur].Size, tw.offset) = 0
    /\ LET sent == [tw EXCEPT !.finalized[tw.cur] = TRUE]
       IN  tw' = CASE answer = "ready" -> Uploaded(sent, "ready")
                   [] answer = "processing" -> [sent EXCEPT !.pc = "poll", !.polls = 0]
                   [] OTHER -> Abort(Deferred(sent), "failed to upload media")
    /\ UNCHANGED <<yt, fb, ig>>
    /\ UNCHANGED <<serverVars, oauth>>

\* the loop goes round once more than it should
AttemptsExhaustedLate(attempt) == attempt > MaxStatusPolls

\* for attempt := 0; attempt < 30; attempt++ has run out
AttemptsExhausted(attempt) == attempt >= MaxStatusPolls

\* waitForMediaProcessing: one STATUS request and what the loop does with the
\* answer; the status code of the response is not looked at.  The answer is
\* one of the three states of processing_info, processing_info.error, a
\* transport error, a body that is not JSON, or an HTTP error whose JSON body
\* has no processing_info.
TwStatus(answer) ==
    /\ tw.pc = "poll"
    /\ LET t == [tw EXCEPT !.polls = @ + 1]
       IN  tw' = CASE answer = "neterr" ->
                        Abort(Deferred([t EXCEPT !.pollEnd = "broken"]), "twitter STATUS request failed")
                   [] answer = "nojson" ->
                        Abort(Deferred([t EXCEPT !.pollEnd = "broken"]), "failed to parse STATUS response")
                   [] answer = "httperror" ->
                        Uploaded([t EXCEPT !.pollEnd = "noinfo"], "unconfirmed")
                   [] answer = "error" ->
                        Abort(Deferred([t EXCEPT !.pollEnd = "error"]), "twitter media processing error")
                   [] answer = "succeeded" -> Uploaded([t EXCEPT !.pollEnd = "succeeded"], "ready")
                   [] answer = "failed" ->
                        Abort(Deferred([t EXCEPT !.pollEnd = "failed"]), "twitter media processing failed")
                   [] OTHER ->
                        IF AttemptsExhausted(t.polls)
                        THEN Abort(Deferred([t EXCEPT !.pollEnd = "timeout"]),
                                   "twitter media processing timeout")
                        ELSE t
    /\ UNCHANGED <<yt, fb, ig>>
    /\ UNCHANGED <<serverVars, oauth>>

\* every item is uploaded: createTweet with media_ids; the answer is an
\* error or a 201 body with data.id, "" when it has none
TwTweet(answer) ==
    /\ tw.pc = "next"
    /\ tw.cur > Len(tw.media)
    /\ LET t == [tw EXCEPT !.tweet = "sent"]
       IN  tw' = CASE answer = "fail" -> Abort(t, "twitter API error")
                   [] answer = "" -> Abort(t, "twitter returned empty tweet ID")
                   [] OTHER -> [t EXCEPT !.pc = "done", !.result = "ok", !.PostID = answer]
    /\ UNCHANGED <<yt, fb, ig>>
    /\ UNCHANGED <<serverVars, oauth>>

NextTwitter ==
    \/ \E ok \in BOOLEAN : TwSimpleUpload(ok)
    \/ \E answer \in {"ok", "fail", "noopen"} : TwInit(answer)
    \/ \E ok \in BOOLEAN : TwAppend(ok)
    \/ \E answer \in {"ready", "processing", "fail"} : TwFinalize(answer)
    \/ \E answer \in {"pending", "succeeded", "failed", "error", "neterr", "nojson", "httperror"} :
          TwStatus(answer)
    \/ \E answer \in {"fail", "", "tweet1"} : TwTweet(answer)

\* every request is answered
SpecTwitter == InitTwitter /\ [][NextTwitter]_vars /\ WF_vars(NextTwitter)

(* ------------- Instagram: publishSingleImage, publishCarousel ---------- *)
\* Containers are numbered in the order they are asked for: the container of
\* image i is i, the carousel parent of n images is n + 1.
ParentOf(n) == n + 1

InitInstagram ==
    /\ InitQuiet
    /\ ig \in { [pc |-> "create", n |-> n, cur |-> 1, target |-> 0,
                  created |-> <<>>, children |-> <<>>, parentChildren |-> <<>>,
                  polls |-> 0, last |-> "none",
                  readyBy |-> [c \in 1..ParentOf(n) |-> "none"],
                  published |-> 0, result |-> "none", PostID |-> "", err |-> ""] :
                n \in 1..MaxImages }
    /\ yt = Off /\ fb = Off /\ tw = Off /\ oauth = Off

\* createMediaContainer for the image at hand: the single image, or a
\* carousel item
IgCreate(ok) ==
    /\ ig.pc = "create"
    /\ ig' = IF ok
             THEN [ig EXCEPT !.pc = "poll", !.target = ig.cur, !.created = Append(@, ig.cur),
                             !.polls = 0, !.last = "none"]
             ELSE Abort(ig, "Instagram media container API error")
    /\ UNCHANGED <<yt, fb, tw>>
    /\ UNCHANGED <<serverVars, oauth>>

\* the range loop stops after its first item
LastChildEarly(cur, n) == TRUE

\* for _, m := range media: cur was the last image
LastChild(cur, n) == cur >= n

\* waitContainerReady returned nil for ig.target: what the caller does next
AfterReady(g) ==
    IF g.n = 1 \/ g.target = ParentOf(g.n)
    THEN [g EXCEPT !.pc = "publish"]
    ELSE [g EXCEPT !.children = Append(@, g.target),
                   !.cur = @ + 1,
                   !.pc = IF LastChild(g.cur, g.n) THEN "parent" ELSE "create"]

\* ERROR is taken for a container still in progress
IsHardFailureNever(status) == FALSE

\* if status.StatusCode == "ERROR"
IsHardFailure(status) == status = "ERROR"

\* waitContainerReady: one GET of status_code and what the loop does with it.
\* The answer is the status_code of a 200 response ("" when the field is
\* missing), or one of the two ways the request itself fails.
IgPoll(answer) ==
    /\ ig.pc = "poll"
    /\ LET g == [ig EXCEPT !.polls = @ + 1, !.last = answer]
       IN  ig' = CASE answer = "neterr" -> Abort(g, "request failed")
                   [] answer = "httperror" -> Abort(g, "Instagram container status API error")
                   [] answer \in {"FINISHED", "PUBLISHED", ""} -> AfterReady([g EXCEPT !.readyBy[g.target] = answer])
                   [] IsHardFailure(answer) -> Abort(g, "Instagram media processing failed")
                   [] OTHER ->
                        IF g.polls >= MaxContainerPolls
                        THEN Abort(g, "Instagram media processing timeout") ELSE g
    /\ UNCHANGED <<yt, fb, tw>>
    /\ UNCHANGED <<serverVars, oauth>>

\* createMediaContainer with media_type=CAROUSEL and children
IgCreateParent(ok) ==
    /\ ig.pc = "parent"
    /\ ig' = IF ok
             THEN [ig EXCEPT !.pc = "poll", !.target = ParentOf(ig.n),
                             !.created = Append(@, ParentOf(ig.n)),
                             !.parentChildren = ig.children, !.polls = 0, !.last = "none"]
             ELSE Abort(ig, "Instagram media container API error")
    /\ UNCHANGED <<yt, fb, tw>>
    /\ UNCHANGED <<serverVars, oauth>>

\* publishContainer(creation_id = ig.target): the answer is an error or a 200
\* body whose id, "" when it has none, is returned as it is
IgPublish(answer) ==
    /\ ig.pc = "publish"
    /\ LET g == [ig EXCEPT !.published = ig.target]
       IN  ig' = IF answer = "fail"
                 THEN Abort(g, "Instagram publish API error")
                 ELSE [g EXCEPT !.pc = "done", !.result = "ok", !.PostID = answer]
    /\ UNCHANGED <<yt, fb, tw>>
    /\ UNCHANGED <<serverVars, oauth>>

NextInstagram ==
    \/ \E ok \in BOOLEAN : IgCreate(ok)
    \/ \E answer \in {"FINISHED", "PUBLISHED", "", "ERROR", "IN_PROGRESS", "EXPIRED",
                       "httperror", "neterr"} : IgPoll(answer)
    \/ \E ok \in BOOLEAN : IgCreateParent(ok)
    \/ \E answer \in {"fail", "", "media1"} : IgPublish(answer)

SpecInstagram == InitInstagram /\ [][NextInstagram]_vars

(* ------------------- the adapters' requests, any adapter --------------- *)
\* one adapter call that has passed its checks: any of the five request
\* sequences, from its first request to its return
NextRequests == NextUpload \/ NextAlbum \/ NextReel \/ NextTwitter \/ NextInstagram

SpecRequests ==
    /\ InitUpload \/ InitAlbum \/ InitReel \/ InitTwitter \/ InitInstagram
    /\ [][NextRequests]_vars

(* ----------------------- services.OAuthStateService -------------------- *)
\* NewOAuthStateService: an empty map, the mutex free; two callbacks can be
\* in ValidateState at the same time.  "state1" is the token rand.Read yields,
\* never handed out before; "forged" is a state parameter no GenerateState
\* call returned.  issued and accepted are kept for the record: when a token
\* was generated and how often it was accepted.
InitOAuth ==
    /\ InitQuiet
    /\ oauth = [pc |-> "on", now |-> 0, mu |-> 0,
                states |-> [s \in {} |-> 0],
                call |-> [c \in 1..MaxCallbacks |-> [pc |-> "idle", state |-> "", CreatedAt |-> NoTime]],
                issued |-> [s \in {} |-> 0],
                accepted |-> [s \in {"state1", "forged"} |-> 0]]
    /\ yt = Off /\ fb = Off /\ tw = Off /\ ig = Off

\* the lock keeps nobody out
MuFreeAlways(mu) == TRUE

\* s.mu.Lock() returns when no other goroutine holds the mutex
MuFree(mu) == mu = 0

\* time.Since(oauthState.CreatedAt) > 10*time.Minute
Expired(createdAt, t) == t - createdAt > StateTTLMinutes

\* a minute passes
MinutePasses ==
    /\ oauth.pc = "on"
    /\ oauth.now < MaxMinutes
    /\ oauth' = [oauth EXCEPT !.now = @ + 1]
    /\ UNCHANGED <<serverVars, yt, fb, tw, ig>>

\* GenerateState: the whole body runs under the mutex
GenerateState(state) ==
    /\ oauth.pc = "on"
    /\ MuFree(oauth.mu)
    /\ state \notin DOMAIN oauth.issued
    /\ oauth' = [oauth EXCEPT !.states = (state :> oauth.now) @@ @,
                              !.issued = (state :> oauth.now) @@ @]
    /\ UNCHANGED <<serverVars, yt, fb, tw, ig>>

\* ValidateState(state), callback c: s.mu.Lock()
ValidateStateLock(c, state) ==
    /\ oauth.pc = "on"
    /\ oauth.call[c].pc = "idle"
    /\ MuFree(oauth.mu)
    /\ oauth' = [oauth EXCEPT !.mu = c, !.call[c].pc = "locked", !.call[c].state = state]
    /\ UNCHANGED <<serverVars, yt, fb, tw, ig>>

\* oauthState, exists := s.states[state]; if !exists { return nil, false }
ValidateStateLookup(c) ==
    /\ oauth.pc = "on"
    /\ oauth.call[c].pc = "locked"
    /\ oauth' = IF oauth.call[c].state \in DOMAIN oauth.states
                THEN [oauth EXCEPT !.call[c].pc = "found",
                                   !.call[c].CreatedAt = oauth.states[oauth.call[c].state]]
                ELSE [oauth EXCEPT !.call[c] = [pc |-> "idle", state |-> "", CreatedAt |-> NoTime],
                                   !.mu = 0]
    /\ UNCHANGED <<serverVars, yt, fb, tw, ig>>

\* the expiry test, delete(s.states, state) either way, the deferred Unlock
ValidateStateConsume(c) ==
    /\ oauth.pc = "on"
    /\ oauth.call[c].pc = "found"
    /\ LET state == oauth.call[c].state
           returned == [oauth EXCEPT !.states = [s \in DOMAIN @ \ {state} |-> @[s]], !.mu = 0,
                                     !.call[c] = [pc |-> "idle", state |-> "", CreatedAt |-> NoTime]]
       IN  oauth' = IF Expired(oauth.call[c].CreatedAt, oauth.now)
                    THEN returned
                    ELSE [returned EXCEPT !.accepted[state] = @ + 1]
    /\ UNCHANGED <<serverVars, yt, fb, tw, ig>>

\* cleanupExpired: on every tick of the 10-minute ticker, under the mutex,
\* the states older than 10 minutes are deleted
CleanupExpired ==
    /\ oauth.pc = "on"
    /\ oauth.now > 0
    /\ oauth.now % CleanupPeriodMinutes = 0
    /\ MuFree(oauth.mu)
    /\ oauth' = [oauth EXCEPT !.states =
                     [s \in {x \in DOMAIN oauth.states : ~Expired(oauth.states[x], oauth.now)}
                         |-> oauth.states[s]]]
    /\ UNCHANGED <<serverVars, yt, fb, tw, ig>>

NextOAuth ==
    \/ MinutePasses
    \/ GenerateState("state1")
    \/ \E c \in 1..MaxCallbacks, state \in {"state1", "forged"} : ValidateStateLock(c, state)
    \/ \E c \in 1..MaxCallbacks : ValidateStateLookup(c)
    \/ \E c \in 1..MaxCallbacks : ValidateStateConsume(c)
    \/ CleanupExpired

SpecOAuth == InitOAuth /\ [][NextOAuth]_vars

(* ------------------------------- claims -------------------------------- *)
\* the posts a cron job holds: the one it is publishing and the ones it fetched
Held(k) ==
    {ctx[k].queue[i].ID : i \in 1..Len(ctx[k].queue)}
    \cup (IF ctx[k].pc \in {"publishing", "returned"} THEN {ctx[k].post.ID} ELSE {})

\* C1: two overlapping scheduler ticks never both hold the same scheduled post.
C1_ExclusiveClaim ==
    \A j \in TickCtxs, k \in TickCtxs : j # k => Held(j) \cap Held(k) = {}

AllDone(c) == \A i \in 1..Len(c.done) : c.done[i]

\* C2: every written slot i holds the result of post.Platforms[i], and a call that
\* has returned holds exactly one result per platform, whatever the completion order.
C2_ResultsInOrder ==
    \A k \in Contexts :
        ctx[k].pc \in {"publishing", "returned"} =>
            /\ Len(ctx[k].results) = Len(ctx[k].post.Platforms)
            /\ \A i \in 1..Len(ctx[k].results) :
                   (ctx[k].done[i] \/ ctx[k].pc = "returned") =>
                       ctx[k].results[i].Platform = ctx[k].post.Platforms[i]

\* the second platform's task completed while the first is still running
C2_Witness ==
    \E k \in Contexts :
        /\ ctx[k].pc = "publishing"
        /\ Len(ctx[k].done) = 2
        /\ ~ctx[k].done[1]
        /\ ctx[k].done[2]
        /\ ctx[k].results[2].Platform = ctx[k].post.Platforms[2]

\* C3: after PublishPost returned the post is published with published_at set
\* exactly when every result succeeded; otherwise it is failed with published_at unset.
C3_StatusIffAllSucceeded ==
    \A k \in Contexts :
        ctx[k].pc = "returned" =>
            LET every == \A i \in 1..Len(ctx[k].results) : ctx[k].results[i].Success
            IN  /\ every => ctx[k].post.Status = StatusPublished /\ ctx[k].post.PublishedAt # NoTime
                /\ ~every => ctx[k].post.Status = StatusFailed /\ ctx[k].post.PublishedAt = NoTime

\* facebook succeeded, twitter's token expired: two results, the post is failed
C3_Witness ==
    \E k \in Contexts :
        /\ ctx[k].pc = "returned"
        /\ ctx[k].post.Platforms = <<Facebook, Twitter>>
        /\ ctx[k].results[1].Success
        /\ ~ctx[k].results[2].Success
        /\ ctx[k].results[2].Message = "Twitter token has expired. Please reconnect your account via OAuth"
        /\ ctx[k].post.Status = StatusFailed
        /\ ctx[k].post.PublishedAt = NoTime

PublishedAtMatches(p) == (p.PublishedAt # NoTime) <=> (p.Status = StatusPublished)

\* C4: published_at is set exactly when status = published, for every post a
\* goroutine holds in memory and for every row of the posts table.
C4_PublishedAtIffPublished ==
    /\ \A i \in 1..Len(posts) : PublishedAtMatches(posts[i])
    /\ \A k \in Contexts :
           /\ ctx[k].pc \in {"publishing", "returned", "responded"} /\ ctx[k].post.ID # 0
                  => PublishedAtMatches(ctx[k].post)
           /\ \A i \in 1..Len(ctx[k].queue) : PublishedAtMatches(ctx[k].queue[i])

\* C5: a panic inside a platform task never ends the process: the call goes on.
C5_PanicContained == ~crashed

\* C6: while the scheduler has a post in the orchestrator, the row says publishing.
C6_ClaimedIsPublishing ==
    \A k \in TickCtxs :
        ctx[k].pc = "publishing" => posts[ctx[k].post.ID].Status = StatusPublishing

\* C7: once a scheduler-driven publish of a post has ended in failure, the
\* scheduler never hands that post to the orchestrator again.
C7_NoAutomaticRetry ==
    [][\A p \in PostIds : failedOnce[p] =>
          /\ \A k \in TickCtxs :
                 (ctx[k].pc = "idle" /\ ctx'[k].pc = "loop") =>
                     \A i \in 1..Len(ctx'[k].queue) : ctx'[k].queue[i].ID # p
          /\ (\A k \in TickCtxs : p \notin Held(k)) => handed'[p] = handed[p]]_vars

\* C8: the aggregate status is computed, and the call returns, only when every
\* platform task has finished and every result slot is written.
C8_JoinBarrier ==
    \A k \in Contexts :
        (ctx[k].pc = "returned"
         \/ (ctx[k].pc = "publishing" /\ ctx[k].post.Status \in {StatusPublished, StatusFailed}))
            => /\ AllDone(ctx[k])
               /\ \A i \in 1..Len(ctx[k].results) : ctx[k].results[i] # ZeroResult

\* a call over two platforms has returned
C8_Witness ==
    \E k \in Contexts :
        ctx[k].pc = "returned" /\ Len(ctx[k].results) = 2 /\ ctx[k].post.Status = StatusPublished

MissingMessage(plt) ==
    CASE plt = Twitter -> "Missing Twitter credentials"
      [] plt = Facebook -> "Missing Facebook credentials"
      [] plt = LinkedIn -> "Missing LinkedIn credentials"
      [] plt = Instagram -> "Missing Instagram credentials"
      [] plt = TikTok -> "Missing TikTok credentials"
      [] OTHER -> "Missing YouTube credentials"

NoUsableCredentials(c, i) ==
    /\ c.done[i]
    /\ c.post.Platforms[i] \in Publishers
    /\ c.lookup[i] \in {"error", "absent", "empty"}

\* C9: a platform whose credentials are absent, cannot be looked up or have an
\* empty token gets a missing-credentials failure with no network call, and the
\* call still completes every other platform's task.
C9_MissingCredentialsResult ==
    \A k \in Contexts : \A i \in 1..Len(ctx[k].done) :
        NoUsableCredentials(ctx[k], i) =>
            /\ ~ctx[k].results[i].Success
            /\ ctx[k].results[i].Message = MissingMessage(ctx[k].post.Platforms[i])
            /\ ctx[k].net[i] = 0
            /\ ctx[k].pc = "returned" => AllDone(ctx[k])

\* the lookup for facebook failed, twitter was still published
C9_Witness ==
    \E k \in Contexts :
        /\ ctx[k].pc = "returned"
        /\ ctx[k].post.Platforms = <<Facebook, Twitter>>
        /\ ctx[k].lookup[1] = "error"
        /\ ctx[k].results[1].Message = "Missing Facebook credentials"
        /\ ctx[k].results[2].Success
        /\ ctx[k].net[2] > 0

TokenExpiredMessages ==
    { "Twitter token has expired. Please reconnect your account via OAuth",
      "YouTube token has expired. Please reconnect your account via OAuth" }

\* C10: every adapter but Facebook answers a credential that expires within the
\* buffer with a token-expired failure and no network call.
C10_ExpiredTokenRejected ==
    (/\ adapterOut.called
     /\ adapterIn.plt \in Publishers \ {Facebook}
     /\ ~MissingCredentials(adapterIn.cred)
     /\ IsTokenExpired(adapterIn.cred, adapterIn.t))
        => /\ ~adapterOut.panic
           /\ ~adapterOut.result.Success
           /\ adapterOut.result.Message \in TokenExpiredMessages
           /\ adapterOut.net = 0

\* C11: Facebook token inside the buffer, validated by the platform, exchange
\* failed: the access token is unchanged, the expiry is now + 24h and the
\* adapter does not answer with the token failure.
C11_ExchangeFailureKeepsToken ==
        \* the exchange request of RefreshFacebookToken did not yield a token
    LET ExchangeFailures == {"transport_error", "unparsable", "error_body"}
        RefreshAttempted ==
            /\ adapterOut.called
            /\ adapterIn.plt = Facebook
            /\ ~MissingCredentials(adapterIn.cred)
            /\ IsTokenExpired(adapterIn.cred, adapterIn.t)
    IN
    (RefreshAttempted /\ adapterIn.env.validate /\ adapterIn.env.exchange \in ExchangeFailures)
        => /\ adapterOut.cred.AccessToken = adapterIn.cred.AccessToken
           /\ adapterOut.cred.ExpiresAt = adapterIn.t + FallbackExtensionMinutes
           /\ adapterOut.result.Message # "Facebook token has expired and cannot be refreshed"

\* C12: after a Facebook task that was handed a stored credential, the
\* credentials table holds the credential as the adapter left it.
C12_RefreshedCredentialPersisted ==
    \A k \in Contexts : \A i \in 1..Len(ctx[k].done) :
        (ctx[k].done[i] /\ ctx[k].post.Platforms[i] = Facebook /\ ctx[k].lookup[i] = "ok")
            => creds[Facebook] = ctx[k].cred[i]

\* C13: an adapter call that fails on a content constraint issued no request.
C13_ConstraintBeforeNetwork ==
        \* the failure messages of the content constraints of the platform table
    LET ConstraintMessages ==
            { "Twitter does not support short-form video posts. Use post_type 'normal' instead",
              "Error publishing Facebook Reel: Facebook Reels require a video attachment",
              "Error publishing to Facebook: unsupported media configuration",
              "Instagram account not connected correctly. Reconnect via OAuth to fetch Instagram Business Account ID",
              "Instagram requires at least one image",
              "TikTok requires a video",
              "YouTube requires a video attachment",
              "LinkedIn does not support stories. Use post_type 'normal' instead" }
    IN
    (adapterOut.called /\ ~adapterOut.panic /\ adapterOut.result.Message \in ConstraintMessages)
        => adapterOut.net = 0

\* C14: a normal (not short) post published to tiktok gets the failure result
\* "TikTok only supports short-form video posts..." and no request is issued.
C14_TikTokOnlyShort ==
        \* the TikTok adapter was called for a post that is not a short
    LET TikTokNormalCall ==
            /\ adapterOut.called
            /\ adapterIn.plt = TikTok
            /\ adapterIn.post.PostType = "normal"
            /\ ~MissingCredentials(adapterIn.cred)
    IN
    TikTokNormalCall
        => /\ ~adapterOut.panic
           /\ ~adapterOut.result.Success
           /\ adapterOut.result.Platform = TikTok
           /\ adapterOut.result.Message =
                  "TikTok only supports short-form video posts. Set post_type to 'short' to publish to TikTok"
           /\ adapterOut.net = 0

\* C15: a platform without a registered adapter gets the failure "Platform not
\* supported" with no credential lookup and no request, and the call still
\* runs the task of every other platform.
C15_UnsupportedPlatform ==
    \A k \in Contexts : \A i \in 1..Len(ctx[k].done) :
        (ctx[k].done[i] /\ ctx[k].post.Platforms[i] \notin Publishers)
            => /\ ctx[k].results[i] = Result(ctx[k].post.Platforms[i], FALSE, "Platform not supported", "")
               /\ ctx[k].lookup[i] = "none"
               /\ ctx[k].net[i] = 0
               /\ ctx[k].pc = "returned" => AllDone(ctx[k])

\* linkedin was published next to a platform nobody registered
C15_Witness ==
    \E k \in Contexts :
        /\ ctx[k].pc = "returned"
        /\ ctx[k].post.Platforms = <<LinkedIn, "mastodon">>
        /\ ctx[k].results[2].Message = "Platform not supported"
        /\ ctx[k].results[1].Success
        /\ ctx[k].lookup[1] = "ok"

\* C16: when PublishPost has returned, a publish_results row was written for
\* every requested platform, equal to the returned result, and the post update
\* was issued.
C16_OneAuditRowPerPlatform ==
    \A k \in Contexts :
        ctx[k].pc = "returned" =>
            /\ ctx[k].updated # "none"
            /\ \A i \in 1..Len(ctx[k].results) :
                   /\ ctx[k].saved[i] # "none"
                   /\ ctx[k].saved[i] = "ok" =>
                          BagIn([post |-> ctx[k].post.ID, result |-> ctx[k].results[i]], audit)

\* C17: a failed SavePublishResult or UpdatePost changes neither the results
\* the call returns nor the status and published_at of the post in memory.
C17_PersistenceFailureKeepsResult ==
    \A k \in Contexts :
        /\ \A i \in 1..Len(ctx[k].done) :
               ctx[k].saved[i] = "failed" =>
                   /\ ctx[k].results[i] # ZeroResult
                   /\ ctx[k].results[i].Platform = ctx[k].post.Platforms[i]
                   /\ ctx[k].lookup[i] # "ok" =>
                          ctx[k].results[i].Message = MissingMessage(ctx[k].post.Platforms[i])
        /\ (ctx[k].pc \in {"returned", "responded"} /\ ctx[k].updated = "failed") =>
               ctx[k].post = Aggregate(ctx[k].post, ctx[k].results, ctx[k].post.PublishedAt)

\* the update failed, the call returned published
C17_Witness ==
    \E k \in Contexts :
        /\ ctx[k].pc = "returned"
        /\ ctx[k].updated = "failed"
        /\ Len(ctx[k].saved) = 2
        /\ ctx[k].post.Status = StatusPublished
        /\ posts[ctx[k].post.ID].Status # StatusPublished

\* C18: a cron job whose PublishPost call has returned, with posts of its
\* batch still unvisited, goes on with the next post of the batch, whatever
\* the call did; it ends only when the batch is used up.
C18_TickContinuesAfterFailure ==
    [][\A k \in TickCtxs :
          (ctx[k].pc = "returned" /\ ctx[k].queue # <<>> /\ ctx'[k] # ctx[k])
              => /\ ctx'[k].pc = "publishing"
                 /\ ctx'[k].post.ID = Head(ctx[k].queue).ID
                 /\ ctx'[k].queue = Tail(ctx[k].queue)]_vars

\* one tick has fired: its first post ended failed, with a failed update, and
\* the second post of the batch has reached a terminal status
C18_Witness ==
    \E k \in TickCtxs :
        /\ now = 1
        /\ failedOnce[1]
        /\ faults > 0
        /\ ctx[k].pc = "returned"
        /\ ctx[k].post.ID = 2
        /\ ctx[k].post.Status \in {StatusPublished, StatusFailed}
        /\ posts[2].Status = ctx[k].post.Status

Due(p) == p \in 1..Len(posts) /\ IsDue(posts[p], now)

Terminal(p) == p \in 1..Len(posts) /\ posts[p].Status \in {StatusPublished, StatusFailed}

C20_NoCrossCancellation ==
        \* the goroutine of slot idx ends in a panic of its own for some answer of the
        \* network: its adapter walks post.Media and meets the nil element
    LET OwnTaskPanics(c, idx) ==
            LET plt == c.post.Platforms[idx]
            IN  /\ Registered(plt)
                /\ \E lookupOk \in BOOLEAN :
                       LET credentials == GetCredentials(creds, plt, lookupOk)
                       IN  \E env \in EnvsFor(plt, credentials, now) :
                               Publish(plt, c.post, credentials, now, env).panic
        \* the goroutine of slot idx can still run to its result
        TaskCanRun(k, idx) ==
            ENABLED (\E env \in Envs, lookupOk, saveOk \in BOOLEAN : RunTask(k, idx, env, lookupOk, saveOk))
    IN
    \A k \in Contexts :
        ctx[k].pc = "publishing" =>
            \A i \in 1..Len(ctx[k].done) :
                (~ctx[k].done[i] /\ ~OwnTaskPanics(ctx[k], i)) => TaskCanRun(k, i)

\* C21: the title uploadVideo emits never exceeds 100 characters, short posts
\* included: it is the truncated content, followed by " #Shorts" only when
\* the two together still fit.
C21_TitleWithinLimit ==
    LET kept == IF Len(yt.content) > YouTubeTitleLimit THEN YouTubeTitleLimit ELSE Len(yt.content)
        body == IF kept = 0 THEN Ascii(8) ELSE SubSeq(yt.content, 1, kept)
    IN  yt.pc = "built" =>
            /\ RuneCount(yt.title) <= YouTubeTitleLimit
            /\ Len(yt.title) <= YouTubeTitleLimit
            /\ yt.title \in {body, body \o Ascii(8)}
            /\ ~yt.isShort => yt.title = body

\* a short post whose content is cut inside a multi-byte character, and one
\* whose 92 bytes take the suffix up to the limit
C21_Witness ==
    /\ yt.pc = "built"
    /\ yt.isShort
    /\ \/ Len(yt.content) > YouTubeTitleLimit /\ yt.title[YouTubeTitleLimit] >= 2
       \/ Len(yt.content) = ShortsSuffixBudget /\ Len(yt.title) = YouTubeTitleLimit

\* C22: a post created with scheduled_for in the future is stored as scheduled
\* and answered without a publish; any other post is stored as draft and handed
\* to PublishPost in the creating request; and no PublishPost call, of the
\* handler or of the scheduler, starts for a post before its scheduled_for.
C22_ScheduledNotEarly ==
    [][/\ Len(posts') = Len(posts) + 1 =>
             LET row == posts'[Len(posts')]
             IN  IF row.ScheduledFor # NoTime /\ row.ScheduledFor > now
                 THEN /\ row.Status = StatusScheduled
                      /\ ctx'[HttpCtx].pc = "responded"
                      /\ ctx'[HttpCtx].code = 201
                      /\ ctx'[HttpCtx].results = <<>>
                 ELSE /\ row.Status = StatusDraft
                      /\ ctx'[HttpCtx].pc = "publishing"
                      /\ ctx'[HttpCtx].post.ID = Len(posts')
       /\ \A q \in PostIds :
             handed'[q] > handed[q] => (posts[q].ScheduledFor # NoTime /\ posts[q].ScheduledFor <= now)
       /\ \A k \in Contexts :
             (ctx[k].pc # "publishing" /\ ctx'[k].pc = "publishing") =>
                 posts'[ctx'[k].post.ID].ScheduledFor <= now
      ]_vars

\* a post created for the last minute of the clock has been handed over by
\* the scheduler
C22_Witness ==
    \E q \in 1..Len(posts) :
        /\ handed[q] > 0
        /\ posts[q].ScheduledFor = MaxTime
        /\ now = MaxTime

\* C23: on the immediate path the answer is 502 exactly when a platform result
\* has success = false, failed_platforms then lists exactly the failing
\* platforms in request order, and the answer carries one result per platform.
C23_PartialFailureResponse ==
    LET c == ctx[HttpCtx]
        failing == {i \in 1..Len(c.results) : ~c.results[i].Success}
    IN  (c.pc = "responded" /\ c.post.Status \in {StatusPublished, StatusFailed}) =>
            /\ c.code \in {201, 502}
            /\ c.code = 502 <=> failing # {}
            /\ Len(c.failed) = Cardinality(failing)
            /\ \E f \in [1..Len(c.failed) -> failing] :
                   /\ \A i, j \in 1..Len(c.failed) : i < j => f[i] < f[j]
                   /\ \A i \in 1..Len(c.failed) : c.failed[i] = c.post.Platforms[f[i]]
            /\ Len(c.results) = Len(c.post.Platforms)
            /\ \A i \in 1..Len(c.results) : c.results[i].Platform = c.post.Platforms[i]

\* a 502 whose second platform failed while the first succeeded
C23_Witness ==
    LET c == ctx[HttpCtx]
    IN  /\ c.pc = "responded"
        /\ c.code = 502
        /\ Len(c.results) = 2
        /\ c.results[1].Success
        /\ c.failed = <<c.post.Platforms[2]>>

\* C24: every post CreatePost has stored meets the media requirement of its
\* type: a short post has a video among its attachments, a story post has an
\* attachment.
C24_MediaRequirement ==
    \A q \in 1..Len(posts) :
        /\ posts[q].PostType = "short" => HasVideo(posts[q].MediaIDs)
        /\ posts[q].PostType = "story" => Len(posts[q].MediaIDs) > 0

\* C25: in publishMultiplePhotos at most 4 photo uploads are in flight at any
\* moment, however many images the post has.
C25_AtMostFourUploads ==
    fb.pc # "off" => Cardinality(Uploading) <= PhotoSemCapacity

\* four uploads in flight and a fifth image waiting for a slot
C25_Witness ==
    /\ fb.pc # "off"
    /\ Cardinality(Uploading) = PhotoSemCapacity
    /\ \E i \in 1..Len(fb.task) : fb.task[i] = "waiting"

\* C26: the feed post is sent only after every upload has finished and only
\* when all succeeded, it references exactly the ids of the image attachments,
\* each uploaded unpublished; when an upload failed no feed post is sent and
\* the call fails.
C26_FeedAfterAllUploads ==
    /\ fb.pc # "off" /\ fb.feed # "none" =>
           LET images == {i \in 1..Len(fb.media) : fb.media[i] = "image"}
           IN  /\ fb.next > Len(fb.media)
               /\ \A i \in images : fb.task[i] = "ok" /\ fb.published[i] = "false"
               /\ Len(fb.attached) = Cardinality(images)
               /\ Range(fb.attached) = images
    /\ (fb.pc = "done" /\ \E i \in 1..Len(fb.task) : fb.task[i] = "failed") =>
           fb.feed = "none" /\ fb.result = "failed"
    /\ fb.pc = "done" /\ fb.result = "ok" => fb.feed = "ok"

\* a published album of MaxAlbum images whose uploads finished out of order
C26_Witness ==
    /\ fb.pc = "done"
    /\ fb.result = "ok"
    /\ Len(fb.attached) = MaxAlbum
    /\ fb.attached[1] = MaxAlbum

\* C27: APPEND segments are numbered from 0 without gaps, FINALIZE is sent only
\* after INIT and after APPENDs that cover the file in 5 MB chunks, the tweet is
\* created only when every media item is uploaded and processed, and a call
\* that gave up has created no tweet.
C27_ChunkedUploadOrder ==
    LET Covers(segs, size) ==
            /\ \A j \in 1..(Len(segs) - 1) : segs[j].bytes = ChunkMB
            /\ \A j \in 1..Len(segs) : segs[j].bytes \in 1..ChunkMB
            /\ (Len(segs) - 1) * ChunkMB
                   + (IF Len(segs) > 0 THEN segs[Len(segs)].bytes ELSE ChunkMB) = size
    IN
    tw.pc # "off" =>
        /\ \A i \in 1..Len(tw.media) :
               /\ \A j \in 1..Len(tw.segs[i]) : tw.segs[i][j].index = j - 1
               /\ tw.segs[i] # <<>> => tw.inited[i]
               /\ tw.finalized[i] => tw.inited[i] /\ Covers(tw.segs[i], tw.media[i].Size)
        /\ tw.tweet # "none" => \A i \in 1..Len(tw.media) : tw.state[i] = "ready"
        /\ (tw.pc = "done" /\ \E i \in 1..Len(tw.media) : tw.state[i] = "none") => tw.tweet = "none"

\* C28: the poll sends at most 30 STATUS requests; it ends in success on
\* succeeded, in a failure on failed or on a processing error, and after 30
\* pending answers in a timeout failure whose message is not that of a
\* platform failure; and every call comes to its end.
C28_PollBounded ==
    /\ [](tw.pc # "off" =>
             /\ tw.polls <= MaxStatusPolls
             /\ tw.pollEnd = "timeout" =>
                    /\ tw.polls = MaxStatusPolls
                    /\ tw.result = "failed"
                    /\ tw.err = "twitter media processing timeout"
             /\ tw.pollEnd = "failed" =>
                    tw.result = "failed" /\ tw.err = "twitter media processing failed"
             /\ tw.pollEnd = "error" =>
                    tw.result = "failed" /\ tw.err = "twitter media processing error"
             /\ tw.pollEnd = "succeeded" =>
                    tw.err \notin {"twitter media processing timeout", "twitter media processing failed",
                                   "twitter media processing error"}
             /\ tw.err = "twitter media processing timeout" => tw.pollEnd = "timeout")
    /\ <>(tw.pc \in {"off", "done"})

\* the thirtieth STATUS answer was still pending: the call ended in a timeout
C28_Witness ==
    /\ tw.pc = "done"
    /\ tw.pollEnd = "timeout"
    /\ tw.polls = MaxStatusPolls

\* C29 as stated: the publish request for a container is sent only after a
\* poll of that container answered FINISHED; at most 10 polls per container;
\* ERROR and the exhausted budget are failures without a publish request.
C29_PublishAfterFinished ==
    ig.pc # "off" =>
        /\ ig.polls <= MaxContainerPolls
        /\ ig.last = "ERROR" =>
               /\ ig.pc = "done"
               /\ ig.result = "failed"
               /\ ig.err = "Instagram media processing failed"
               /\ ig.published = 0
        /\ ig.err = "Instagram media processing timeout" =>
               /\ ig.pc = "done"
               /\ ig.result = "failed"
               /\ ig.polls = MaxContainerPolls
               /\ ig.published = 0
        /\ ig.pc \in {"publish", "done"} /\ (ig.pc = "publish" \/ ig.published # 0) =>
               ig.readyBy[ig.target] = "FINISHED"

\* C29 amended: the publish request for a container is sent only after a poll
\* of that container answered FINISHED, PUBLISHED or no status_code at all;
\* the rest as stated.
C29_PublishAfterReady ==
    ig.pc # "off" =>
        /\ ig.polls <= MaxContainerPolls
        /\ ig.last = "ERROR" =>
               /\ ig.pc = "done"
               /\ ig.result = "failed"
               /\ ig.err = "Instagram media processing failed"
               /\ ig.published = 0
        /\ ig.err = "Instagram media processing timeout" =>
               /\ ig.pc = "done"
               /\ ig.result = "failed"
               /\ ig.polls = MaxContainerPolls
               /\ ig.published = 0
        /\ ig.pc \in {"publish", "done"} /\ (ig.pc = "publish" \/ ig.published # 0) =>
               ig.readyBy[ig.target] \in {"FINISHED", "PUBLISHED", ""}

\* a single image published after nine polls in progress and a tenth finished
C29_Witness ==
    /\ ig.pc = "done"
    /\ ig.n = 1
    /\ ig.published = 1
    /\ ig.polls = MaxContainerPolls
    /\ ig.readyBy[1] = "FINISHED"

\* C30: the carousel parent is created only after every child was created and
\* polled ready, it references all children in media order, it is polled ready
\* before it is published, only the parent is published, and a call that gave
\* up on a child has neither created the parent nor published.
C30_CarouselOrder ==
    (ig.pc # "off" /\ ig.n > 1) =>
        /\ \A j \in 1..Len(ig.created) : ig.created[j] = j
        /\ ParentOf(ig.n) \in Range(ig.created) =>
               /\ \A c \in 1..ig.n : ig.readyBy[c] # "none"
               /\ ig.parentChildren = [c \in 1..ig.n |-> c]
        /\ ig.published # 0 =>
               ig.published = ParentOf(ig.n) /\ ig.readyBy[ParentOf(ig.n)] # "none"
        /\ (ig.pc = "done" /\ \E c \in 1..ig.n : ig.readyBy[c] = "none") =>
               ParentOf(ig.n) \notin Range(ig.created) /\ ig.published = 0

\* a carousel of MaxImages images has been published
C30_Witness ==
    /\ ig.pc = "done"
    /\ ig.n = MaxImages
    /\ ig.published = ParentOf(MaxImages)
    /\ ig.result = "ok"


\* C31: the PUT is sent only after the metadata POST was answered 200 with a
\* non-empty Location header, and to exactly that URI; the call succeeds only
\* when the PUT's response holds a non-empty video id, which is the external
\* post id; no request follows the PUT.
C31_ResumableUpload ==
    /\ Len(yt.net) <= 2
    /\ \A i \in 1..Len(yt.net) : yt.net[i].method = "PUT" <=> i = 2
    /\ Len(yt.net) = 2 =>
           /\ ~yt.net[1].answer.err
           /\ yt.net[1].answer.status = 200
           /\ yt.net[1].answer.location # ""
           /\ yt.net[2].url = yt.net[1].answer.location
    /\ yt.result = "ok" =>
           /\ yt.pc = "done"
           /\ Len(yt.net) = 2
           /\ ~yt.net[2].answer.err
           /\ yt.net[2].answer.id # ""
           /\ yt.PostID = yt.net[2].answer.id

\* the session URI came back with the POST, the PUT went there and was
\* answered 201 with a video id
C31_Witness ==
    /\ yt.pc = "done"
    /\ yt.result = "ok"
    /\ yt.net[1].answer.location = "session2"
    /\ yt.net[2].url = "session2"
    /\ yt.net[2].answer.status = 201
    /\ yt.PostID = "video2"


\* C32: the upload is sent only after start was answered 200, finish only
\* after the upload was answered 200, and the call succeeds only when the
\* finish answer reports success.
C32_ReelOrder ==
    /\ \A i \in 1..Len(fb.net) :
           /\ fb.net[i].phase = <<"start", "upload", "finish">>[i]
           /\ i > 1 => ~fb.net[i - 1].answer.err /\ fb.net[i - 1].answer.status = 200
    /\ fb.result = "ok" =>
           /\ Len(fb.net) = 3
           /\ ~fb.net[3].answer.err
           /\ fb.net[3].answer.status = 200
           /\ fb.net[3].answer.success


\* C33: for a post with more than 4 images or more than 1 video the Twitter
\* adapter sends no upload request and no tweet request.
C33_MediaLimitRejected ==
    LET Count(type) == Cardinality({i \in 1..Len(tw.media) : tw.media[i].Type = type})
    IN  (Count("image") > 4 \/ Count("video") > 1) =>
            /\ \A i \in 1..Len(tw.media) : ~tw.inited[i] /\ tw.state[i] = "none"
            /\ tw.tweet = "none"


\* C34: the credential a platform task passed to an adapter other than
\* Facebook's is unchanged when the adapter returns, and the status and
\* published_at of a post, in memory and in the posts table, change only in
\* the step of PublishPost that follows the end of every platform task.
C34_OnlyOrchestratorMutates ==
    /\ [](\A k \in Contexts :
             ctx[k].pc \in {"publishing", "returned"} =>
                 \A i \in 1..Len(ctx[k].post.Platforms) :
                     (ctx[k].lookup[i] # "none" /\ ctx[k].post.Platforms[i] # Facebook) =>
                         ctx[k].cred[i] = GetCredentials(creds, ctx[k].post.Platforms[i],
                                                         ctx[k].lookup[i] # "error"))
    /\ [][LET Differs(a, b) == a.Status # b.Status \/ a.PublishedAt # b.PublishedAt
          IN  /\ \A k \in Contexts :
                     (ctx[k].pc = "publishing" /\ Differs(ctx'[k].post, ctx[k].post)) =>
                         AllDone(ctx[k]) /\ ctx'[k].pc = "returned"
              /\ \A p \in 1..Len(posts) :
                     Differs(posts'[p], posts[p]) =>
                         \E k \in Contexts :
                             /\ ctx[k].pc = "publishing"
                             /\ ctx[k].post.ID = p
                             /\ AllDone(ctx[k])
                             /\ ctx'[k].pc = "returned"]_vars

\* a call for facebook and twitter has returned: twitter's credential is the
\* stored one, and the post got its status in the last step
C34_Witness ==
    \E k \in Contexts :
        /\ ctx[k].pc = "returned"
        /\ ctx[k].post.Platforms = <<Facebook, Twitter>>
        /\ ctx[k].lookup[2] = "ok"
        /\ ctx[k].cred[2] = creds[Twitter]
        /\ ctx[k].cred[2].ExpiresAt # NoTime
        /\ ctx[k].post.Status = StatusPublished
        /\ posts[ctx[k].post.ID].Status = StatusPublished


\* C35: when an adapter call has returned, and between two uploads of one
\* call, no file that the call opened for an upload is still open: Twitter
\* simple and chunked upload, Facebook photo and Reel upload, YouTube upload.
C35_FilesClosed ==
    /\ (yt.pc = "done" \/ yt.pc = "initiate") => yt.file # "open"
    /\ (fb.pc = "done" /\ "file" \in DOMAIN fb) => fb.file # "open"
    /\ (fb.pc \in {"feed", "done"} /\ "handle" \in DOMAIN fb) =>
           \A i \in 1..Len(fb.handle) : fb.handle[i].file # "open"
    /\ tw.pc \in {"next", "done"} => tw.file # "open"

\* a chunked upload gave up on the processing timeout, after the file had
\* been read to its end: the file is closed
C35_Witness ==
    /\ tw.pc = "done"
    /\ tw.result = "failed"
    /\ tw.pollEnd = "timeout"
    /\ tw.file = "closed"

\* C38: a successful result carries a non-empty external post id, whatever
\* the platform answered.
C38_SuccessHasPostID ==
    /\ (yt.pc = "done" /\ yt.result = "ok") => yt.PostID # ""
    /\ (fb.pc = "done" /\ fb.result = "ok") => fb.PostID # ""
    /\ (tw.pc = "done" /\ tw.result = "ok") => tw.PostID # ""
    /\ (ig.pc = "done" /\ ig.result = "ok") => ig.PostID # ""


\* C36: a state token is accepted by ValidateState at most once, also when two
\* callbacks are inside ValidateState with it; a state that GenerateState never
\* returned is never accepted; and every acceptance happens no later than 10
\* minutes after the token was generated.
C36_StateTokenOnce ==
    /\ [](oauth.pc = "on" =>
             \A s \in DOMAIN oauth.accepted :
                 /\ oauth.accepted[s] <= 1
                 /\ s \notin DOMAIN oauth.issued => oauth.accepted[s] = 0)
    /\ [][\A s \in DOMAIN oauth.accepted :
              oauth'.accepted[s] > oauth.accepted[s] =>
                  /\ s \in DOMAIN oauth.issued
                  /\ oauth.now - oauth.issued[s] <= StateTTLMinutes]_vars

\* the token was accepted once, and a second callback is inside ValidateState
\* with the same token
C36_Witness ==
    /\ oauth.pc = "on"
    /\ oauth.accepted["state1"] = 1
    /\ \E c \in 1..MaxCallbacks : oauth.call[c].pc = "locked" /\ oauth.call[c].state = "state1"


\* C37: a PublishPost call for a post with an empty platform list returns an
\* empty result list and leaves the post failed with published_at unset, in
\* memory and in its row; the post is never marked published.
C37_EmptyPlatformsFail ==
    \A k \in Contexts :
        (ctx[k].pc \in {"publishing", "returned"} /\ ctx[k].post.Platforms = <<>>) =>
            /\ ctx[k].results = <<>>
            /\ ctx[k].post.Status # StatusPublished
            /\ posts[ctx[k].post.ID].Status # StatusPublished
            /\ posts[ctx[k].post.ID].PublishedAt = NoTime
            /\ ctx[k].pc = "returned" =>
                   /\ ctx[k].post.Status = StatusFailed
                   /\ ctx[k].post.PublishedAt = NoTime
                   /\ ctx[k].updated = "ok" => posts[ctx[k].post.ID].Status = StatusFailed

\* the call for the post without platforms has returned and its row is failed
C37_Witness ==
    /\ ctx[HttpCtx].pc = "returned"
    /\ ctx[HttpCtx].post.Platforms = <<>>
    /\ ctx[HttpCtx].results = <<>>
    /\ ctx[HttpCtx].updated = "ok"
    /\ posts[1].Status = StatusFailed


\* C39: publishMultiplePhotos always returns, with every upload goroutine
\* finished and no slot of sem held; it returns an upload error, without the
\* feed request, when some upload failed, and the outcome of the feed request
\* otherwise.
C39_AlbumTerminates ==
    <>(/\ fb.pc = "done"
       /\ UploadsDone(fb.task)
       /\ Uploading = {}
       /\ LET failed == {i \in 1..Len(fb.task) : fb.task[i] = "failed"}
          IN  \/ failed # {} /\ fb.result = "failed" /\ fb.feed = "none"
              \/ failed = {} /\ fb.feed \in {"ok", "failed"}
                             /\ fb.result = fb.feed)

\* the function has returned for more images than sem has slots, two of
\* which failed: the second error found errCh full
C39_Witness ==
    /\ fb.pc = "done"
    /\ Len(fb.media) > PhotoSemCapacity
    /\ Cardinality({i \in 1..Len(fb.task) : fb.task[i] = "failed"}) >= 2
    /\ UploadsDone(fb.task)

\* C40: on a successful multi-photo post the feed request attaches the photo
\* ids in the order of the images in post.Media.
C40_AttachedInMediaOrder ==
    (fb.pc = "done" /\ fb.result = "ok" /\ Len(fb.attached) > 0) =>
        \A a, b \in 1..Len(fb.attached) : a < b => fb.attached[a] < fb.attached[b]

====
